---- MODULE Spec2Model ----
(***************************************************************************)
(* PharmaDB front end: the add-entry workflow of InlineAddEntry.tsx        *)
(* (manual save, CSV upload row by row or through the list-scoped bulk     *)
(* endpoint) and its CSV parser, the sample templates of csvTemplates.ts,  *)
(* the HTTP requests of the client, and DomainView (part_002), the page    *)
(* that mounts the add button, polls the entries and deletes the selected  *)
(* ones.                                                                   *)
(*                                                                         *)
(* A string is a sequence of one-character strings; a parsed row is a      *)
(* function from header strings to value strings.                          *)
(***************************************************************************)
EXTENDS Integers, Sequences, FiniteSets, TLC

(***************************************************************************)
(* Bounds of the model                                                     *)
(***************************************************************************)
\* longest CSV text explored by the parser specification
MaxTextLen == 7

\* characters a CSV text is made of: a letter, the comma, the double quote,
\* a whitespace character and the newline
Chars == {"a", ",", "\"", " ", "\n"}

Texts == UNION {[1..n -> Chars] : n \in 0..MaxTextLen}

(***************************************************************************)
(* String helpers (String.prototype.split / trim / replace)                *)
(***************************************************************************)
IsSpace(c) == c \in {" ", "\t", "\r", "\n"}

RECURSIVE SplitFrom(_, _, _, _)
SplitFrom(s, sep, i, cur) ==
  IF i > Len(s) THEN <<cur>>
  ELSE IF s[i] = sep THEN <<cur>> \o SplitFrom(s, sep, i + 1, <<>>)
  ELSE SplitFrom(s, sep, i + 1, Append(cur, s[i]))

\* s.split(sep): always at least one piece, empty pieces kept
Split(s, sep) == SplitFrom(s, sep, 1, <<>>)

RECURSIVE TrimStart(_)
TrimStart(s) ==
  IF s # <<>> /\ IsSpace(Head(s)) THEN TrimStart(Tail(s)) ELSE s

RECURSIVE TrimEnd(_)
TrimEnd(s) ==
  IF s # <<>> /\ IsSpace(s[Len(s)]) THEN TrimEnd(SubSeq(s, 1, Len(s) - 1)) ELSE s

\* s.trim()
Trim(s) == TrimEnd(TrimStart(s))

\* s.replace(/^"|"$/g, ''): a quote at the start is removed, and a quote at
\* the end of what is left is removed, each independently of the other
StripQuotes(s) ==
  LET t == IF s # <<>> /\ Head(s) = "\"" THEN Tail(s) ELSE s
  IN IF t # <<>> /\ t[Len(t)] = "\"" THEN SubSeq(t, 1, Len(t) - 1) ELSE t

\* line.split(',').map(v => v.trim().replace(/^"|"$/g, ''))
MapFields(pieces) == [i \in 1..Len(pieces) |-> StripQuotes(Trim(pieces[i]))]

SplitFields(line) == MapFields(Split(line, ","))

\* the lookup without its default: a missing field stays undefined
ValueAt_noDefault(values, index) ==
  IF index <= Len(values) THEN values[index] ELSE <<"undefined">>

\* values[index] || ''
ValueAt(values, index) == IF index <= Len(values) THEN values[index] ELSE <<>>

\* headers.forEach((header, index) => { row[header] = values[index] || '' })
\* (header names are taken to be ordinary property names)
RECURSIVE BuildRow(_, _, _, _)
BuildRow(headers, values, index, row) ==
  IF index > Len(headers) THEN row
  ELSE BuildRow(headers, values, index + 1,
                (headers[index] :> ValueAt(values, index)) @@ row)

EmptyRow == [k \in {} |-> <<>>]

\* text.split('\n').filter(line => line.trim())
NonBlankLines(text) == SelectSeq(Split(text, "\n"), LAMBDA l : Trim(l) # <<>>)

\* the slice taken one line too far
DataLines_skipFirst(lines) == SubSeq(lines, 3, Len(lines))

\* lines.slice(1).map(line => ...)
DataLines(lines) == SubSeq(lines, 2, Len(lines))

\* a header row alone taken for a complete file
MinLines_headerOnly == 2 - 1

\* if (lines.length < 2)
MinLines == 2

\* the body of reader.onload
parseCsvFile(text) ==
  LET lines == NonBlankLines(text)
  IN IF Len(lines) < MinLines
     THEN [ok |-> FALSE, error |-> "MalformedFile", rows |-> <<>>]
     ELSE LET headers == SplitFields(lines[1])
              data == DataLines(lines)
          IN [ok |-> TRUE, error |-> "none",
              rows |-> [i \in 1..Len(data) |->
                          BuildRow(headers, SplitFields(data[i]), 1, EmptyRow)]]

(***************************************************************************)
(* The add-entry workflow (component InlineAddEntry)                       *)
(***************************************************************************)
\* most data lines in a file offered to the workflow
MaxDataLines == 2

\* prop listId (absent in DomainView)
NoListId == [present |-> FALSE, value |-> 0]
ListIds == {NoListId} \cup {[present |-> TRUE, value |-> v] : v \in {0, 1}}

\* what the user can type into a field
FormValues == {<<>>, <<" ">>, <<"x">>}

\* files the user can pick: a name and a text.  The texts have the header
\* a,b followed by up to MaxDataLines lines, each a row with one empty field
\* or a row with only empty fields; and there is the empty text.  The file
\* that is not a .csv is refused by its name, whatever its text.
CsvName == <<"f", ".", "c", "s", "v">>
TxtName == <<"f", ".", "t", "x", "t">>
FileNames == {CsvName, TxtName}
HeaderLine == <<"a", ",", "b">>
DataLineChoices == {<<"a", ",">>, <<",">>}

RECURSIVE JoinLines(_)
JoinLines(ls) ==
  IF ls = <<>> THEN <<>>
  ELSE IF Len(ls) = 1 THEN ls[1]
  ELSE ls[1] \o <<"\n">> \o JoinLines(Tail(ls))

FileTexts ==
  {<<>>} \cup
  {JoinLines(<<HeaderLine>> \o ls) :
     ls \in UNION {[1..n -> DataLineChoices] : n \in 0..MaxDataLines}}

NoFile == [name |-> <<>>, text |-> <<>>, present |-> FALSE]
Files ==
  {[name |-> CsvName, text |-> t, present |-> TRUE] : t \in FileTexts} \cup
  {[name |-> TxtName, text |-> HeaderLine, present |-> TRUE]}

\* a second folder of files, whose fields are quoted: the header a,b
\* followed by up to MaxDataLines lines, each a,"" with a blank between the
\* quotes (a row whose second value is one blank) or the same quoted blank
\* followed by a comma (a row whose only value is one blank)
QuotedBlank == <<"\"", " ", "\"">>
QuotedLineChoices == {<<"a", ",">> \o QuotedBlank, QuotedBlank \o <<",">>}
QuotedFiles ==
  {[name |-> CsvName, text |-> JoinLines(<<HeaderLine>> \o ls), present |-> TRUE] :
     ls \in UNION {[1..n -> QuotedLineChoices] : n \in 0..MaxDataLines}}

\* a folder with one file: the header a,b and one row
SingleFile ==
  [name |-> CsvName, text |-> JoinLines(<<HeaderLine, <<"a", ",">>>>), present |-> TRUE]

\* the files the file dialog shows in a folder
FilesOf(f) ==
  IF f = "quoted" THEN QuotedFiles
  ELSE IF f = "single" THEN {SingleFile}
  ELSE Files

\* file.name.endsWith('.csv')
EndsWith(s, suffix) ==
  /\ Len(s) >= Len(suffix)
  /\ SubSeq(s, Len(s) - Len(suffix) + 1, Len(s)) = suffix

DotCsv == <<".", "c", "s", "v">>

\* what the backend can answer to a request whose response is parsed
\* (manual save, bulk upload): a 2xx with a JSON body (result.items_added
\* || 0 is 0 or 2) or with a body that is not JSON, a non-2xx with the same choice of bodies, or no answer at
\* all (fetch throws)
Statuses == {422, 500}
OkBodies == {[json |-> TRUE, items |-> 0], [json |-> TRUE, items |-> 2],
             [json |-> FALSE, items |-> 0]}
ErrorBodies == {[json |-> TRUE, detail |-> "msg"], [json |-> TRUE, detail |-> "absent"],
                [json |-> FALSE, detail |-> "absent"]}
Responses ==
  {[kind |-> "ok", status |-> 200, body |-> b] : b \in OkBodies} \cup
  {[kind |-> "error", status |-> st, body |-> b] : st \in Statuses, b \in ErrorBodies} \cup
  {[kind |-> "thrown", status |-> 0, body |-> [json |-> FALSE, detail |-> "absent"]]}

\* what the row loop looks at: response.ok, or the throw
RowOutcomes == {"ok", "rejected", "thrown"}

\* what surrounds the component
VARIABLES
  folder,        \* the folder the user picks files from: "plain", "quoted", "single"
  downloads,     \* the files handed to the browser by downloadCSV
  lastCall,      \* the last call of downloadSampleCSV and how it ended
  token,         \* localStorage item sb_token: "null", "" or a token
  sent           \* the HTTP requests that left the client

\* the chat sidebar next to the page (SidebarListBot, useListBotChat)
VARIABLES
  input,         \* the useState cell of the question field
  messages,      \* the useState cell of the hook: the conversation shown
  chatLoading,   \* the useState cell loading of the hook
  queries        \* the calls of sendMessage: what each posted, how it settled,
                 \* and, as history, where its two messages were put

chatVars == <<input, messages, chatLoading, queries>>

\* the page that mounts the component (DomainView, part_002 from line 345)
VARIABLES
  host,          \* "DomainView", or "other" for a page that only shows the component
  subdomains, selectedSubdomain, entries, viewToast, loading, entriesLoading,
  isAddingEntry, isEditMode, selectedEntries, isDeleting, showDeleteConfirm,
                 \* the useState cells of DomainView (toast is viewToast here)
  pollInterval,  \* whether the interval of the polling effect is registered
  subPc,         \* the effect loading the subdomains: "awaitSubdomains" or "done"
  fetches,       \* the calls of fetchEntries waiting for their answer
  delPc,         \* confirmDelete: "idle", "awaitAll" or "awaitFetch"
  deletes,       \* the delete requests of the last confirmDelete
  deleted,       \* their outcomes, "pending" while in flight
  reported,      \* the value the add button last passed to onAddingStateChange
  isRefreshing,  \* the useState cell behind the refresh button
  refreshPc      \* handleRefresh: "idle", "awaitFetch" or "timer"

sampleVars == <<downloads, lastCall>>
httpVars == <<token, sent>>
fetchVars == <<entries, entriesLoading, fetches, viewToast>>
refreshVars == <<isRefreshing, refreshPc>>
viewVars == <<host, subdomains, selectedSubdomain, loading, isAddingEntry, isEditMode,
              selectedEntries, isDeleting, showDeleteConfirm, pollInterval, subPc,
              delPc, deletes, deleted, reported, refreshVars>>
\* the folder and the chat sidebar, which no step of the page touches
asideVars == <<folder, chatVars>>
outerVars == <<asideVars, sampleVars, httpVars, viewVars>>
hostVars == <<outerVars, fetchVars>>

NoCall == [listType |-> "", outcome |-> "none", logged |-> FALSE, downloaded |-> FALSE]

\* the subdomains the backend can list: one whose name is in the table
\* mapping and one whose name is not
CallLists == [subdomain_id |-> 1, subdomain_name |-> "Call Lists"]
OtherLists == [subdomain_id |-> 2, subdomain_name |-> "Other Lists"]
\* a second subdomain whose name is in the table mapping
EventLists == [subdomain_id |-> 3, subdomain_name |-> "Event Invitation Lists"]
NoSubdomain == [subdomain_id |-> 0, subdomain_name |-> ""]
SubdomainLists == {<<>>, <<CallLists, OtherLists>>, <<OtherLists, CallLists>>}

\* getEntryTableName: tableMapping[subdomainName] || null
getEntryTableName(name) ==
  LET tableMapping ==
        ("Target Lists" :> "target_list")
        @@ ("Call Lists" :> "call_list_entries")
        @@ ("Formulary Decision-Maker Lists" :> "formulary_decision_maker_entries")
        @@ ("IDN/Health System Lists" :> "idn_health_system_entries")
        @@ ("Event Invitation Lists" :> "event_invitation_entries")
        @@ ("Digital Engagement Lists" :> "digital_engagement_entries")
        @@ ("High-Value Prescriber Lists" :> "high_value_prescriber_entries")
        @@ ("Competitor Target Lists" :> "competitor_target_entries")
  IN IF name \in DOMAIN tableMapping THEN tableMapping[name] ELSE "null"

\* getIdFieldName
getIdFieldName(tableName) == IF tableName = "target_list" THEN "id" ELSE "entry_id"

\* getEntryId
getEntryId(entry, tableName) == entry[getIdFieldName(tableName)]

\* most entries a table holds
MaxEntries == 2

\* the records GET /api/{table} can return: the first MaxEntries rows of
\* the table or fewer
EntryRow(n, table) == [entry_id |-> n, c1 |-> "v", c2 |-> table]
EntryLists(table) == {[i \in 1..n |-> EntryRow(i, table)] : n \in 0..MaxEntries}

\* getColumnNames: the keys of the first entry that are not bookkeeping
getColumnNames(list) ==
  IF list = <<>> THEN {}
  ELSE DOMAIN list[1] \ {"entry_id", "version_id", "created_at", "id"}

\* the props DomainView passes to the component (lines 734-741)
subdomainName == selectedSubdomain.subdomain_name
Columns == getColumnNames(entries)

\* most calls of fetchEntries that poll ticks and subdomain changes leave
\* waiting at once
MaxFetches == 2

\* fetchEntries as closed over the subdomain sub, up to its await; t is
\* the toast shown if the call sets none, waiter the handler that awaits
\* the call ("none" when it is not awaited)
fetchEntries(sub, t, waiter) ==
  IF sub = NoSubdomain
  THEN /\ entries' = <<>>
       /\ viewToast' = t
       /\ UNCHANGED <<entriesLoading, fetches>>
  ELSE IF getEntryTableName(sub.subdomain_name) = "null"
  THEN /\ viewToast' = [type |-> "error",
                        message |-> <<"Unknown subdomain type:", sub.subdomain_name>>]
       /\ entries' = <<>>
       /\ entriesLoading' = FALSE
       /\ UNCHANGED fetches
  ELSE /\ entriesLoading' = TRUE
       /\ fetches' = Append(fetches, [table |-> getEntryTableName(sub.subdomain_name),
                                      waiter |-> waiter])
       /\ viewToast' = t
       /\ UNCHANGED entries

\* DomainView as it stands once the entries of sub are shown and nothing
\* is going on
\* the text sendMessage shows when the query failed (useListBotChat.ts 31)
Apology ==
  <<"S", "o", "r", "r", "y", ",", " ", "I", " ", "e", "n", "c", "o", "u",
    "n", "t", "e", "r", "e", "d", " ", "a", "n", " ", "e", "r", "r", "o",
    "r", " ", "p", "r", "o", "c", "e", "s", "s", "i", "n", "g", " ", "y",
    "o", "u", "r", " ", "r", "e", "q", "u", "e", "s", "t", ".", " ", "P",
    "l", "e", "a", "s", "e", " ", "t", "r", "y", " ", "a", "g", "a", "i",
    "n", ".">>

\* the sidebar after its first render
ChatInit ==
  /\ input = <<>>
  /\ messages = <<>>
  /\ chatLoading = FALSE
  /\ queries = <<>>

ViewShown(sub) ==
  /\ subdomains = <<CallLists, OtherLists>>
  /\ selectedSubdomain = sub
  /\ entries = <<EntryRow(1, "call_list_entries")>>
  /\ viewToast = [type |-> "none", message |-> <<>>]
  /\ loading = FALSE
  /\ entriesLoading = FALSE
  /\ isAddingEntry = FALSE
  /\ isEditMode = FALSE
  /\ selectedEntries = {}
  /\ isDeleting = FALSE
  /\ showDeleteConfirm = FALSE
  /\ pollInterval = TRUE
  /\ subPc = "done"
  /\ fetches = <<>>
  /\ delPc = "idle"
  /\ deletes = <<>>
  /\ deleted = <<>>
  /\ reported = FALSE
  /\ isRefreshing = FALSE
  /\ refreshPc = "idle"

\* nothing downloaded and nothing sent yet, the token not stored; the
\* component shown by a page that passes it the table of Call Lists, the
\* columns c1 and c2, and a callback onEntryAdded that is only counted
HostInit ==
  /\ downloads = <<>>
  /\ lastCall = NoCall
  /\ token = "null"
  /\ sent = <<>>
  /\ host = "other"
  /\ ViewShown(CallLists)

\* the parser specification's input and output
VARIABLES text, parsed

parseVars == <<text, parsed>>

VARIABLES
  listId,        \* prop listId
  isAdding, showMenu, addMode, formData, toast, isSaving, isUploading,
  selectedFile,  \* the component's useState cells
  savePc,        \* handleSave: "idle" or "awaitFetch"
  upPc,          \* handleCsvUpload: "idle", "awaitBulk", "reading", "awaitRow"
  upFile,        \* the file handleCsvUpload closed over
  upRows,        \* rows returned by parseCsvFile
  upIdx,         \* position of the row loop
  successCount, errorCount,
  requests,      \* requests issued by the last save or upload
  settled,       \* their outcomes, "pending" while in flight
  refreshCount,  \* calls of onEntryAdded by the last save or upload
  lastResult     \* how the last save or upload ended, "running" while it runs

addVars == <<listId, isAdding, showMenu, addMode, formData, toast, isSaving,
             isUploading, selectedFile, savePc, upPc, upFile, upRows, upIdx,
             successCount, errorCount, requests, settled, refreshCount,
             lastResult>>

NoToast == [type |-> "none", message |-> <<>>]
EmptyForm == [c \in {} |-> <<>>]

\* the filter without its trim: a blank value counts as entered
StripEmpty_noTrim(r) ==
  LET keep == {k \in DOMAIN r : r[k] # <<>>}
  IN [k \in keep |-> r[k]]

\* Object.fromEntries(Object.entries(r).filter(([_, value]) => value.trim() !== ''))
StripEmpty(r) ==
  LET keep == {k \in DOMAIN r : Trim(r[k]) # <<>>}
  IN [k \in keep |-> r[k]]

InFlight == {i \in 1..Len(settled) : settled[i] = "pending"}

AddInit ==
  /\ listId \in ListIds
  /\ isAdding = FALSE
  /\ showMenu = FALSE
  /\ addMode = "null"
  /\ formData = EmptyForm
  /\ toast = NoToast
  /\ isSaving = FALSE
  /\ isUploading = FALSE
  /\ selectedFile = NoFile
  /\ savePc = "idle"
  /\ upPc = "idle"
  /\ upFile = NoFile
  /\ upRows = <<>>
  /\ upIdx = 0
  /\ successCount = 0
  /\ errorCount = 0
  /\ requests = <<>>
  /\ settled = <<>>
  /\ refreshCount = 0
  /\ lastResult = "none"

uploadVars == <<upPc, upFile, upRows, upIdx, successCount, errorCount>>
opVars == <<requests, settled, refreshCount, lastResult>>

\* The record of the last save or upload (its requests, their outcomes, the
\* refresh signals, the locals of handleCsvUpload) is kept for inspection
\* until the user opens the next form.
ForgetLastOperation ==
  /\ upFile' = NoFile
  /\ upRows' = <<>>
  /\ upIdx' = 0
  /\ successCount' = 0
  /\ errorCount' = 0
  /\ requests' = <<>>
  /\ settled' = <<>>
  /\ refreshCount' = 0
  /\ lastResult' = "none"

\* handlePlusClick: the button is rendered while !isAdding
handlePlusClick ==
  /\ ~isAdding
  /\ showMenu' = ~showMenu
  /\ UNCHANGED <<hostVars, parseVars, listId, isAdding, addMode, formData, toast, isSaving,
                 isUploading, selectedFile, savePc, uploadVars, opVars>>

\* the mousedown listener installed while the menu is shown
handleClickOutside ==
  /\ showMenu
  /\ showMenu' = FALSE
  /\ UNCHANGED <<hostVars, parseVars, listId, isAdding, addMode, formData, toast, isSaving,
                 isUploading, selectedFile, savePc, uploadVars, opVars>>

\* handleManualAdd: a menu item, rendered while showMenu && !isAdding
handleManualAdd ==
  /\ showMenu /\ ~isAdding
  /\ addMode' = "manual"
  /\ isAdding' = TRUE
  /\ showMenu' = FALSE
  /\ formData' = [c \in Columns |-> <<>>]
  /\ ForgetLastOperation
  /\ UNCHANGED <<hostVars, parseVars, listId, toast, isSaving, isUploading, selectedFile, savePc,
                 upPc>>

\* handleCsvAdd: the other menu item
handleCsvAdd ==
  /\ showMenu /\ ~isAdding
  /\ addMode' = "csv"
  /\ isAdding' = TRUE
  /\ showMenu' = FALSE
  /\ ForgetLastOperation
  /\ UNCHANGED <<hostVars, parseVars, listId, formData, toast, isSaving, isUploading, selectedFile,
                 savePc, upPc>>

\* a cancel that closes the form and leaves what was entered
handleCancel_keepsData ==
  /\ isAdding
  /\ \/ addMode = "manual" /\ ~isSaving
     \/ addMode = "csv" /\ ~isUploading
  /\ isAdding' = FALSE
  /\ addMode' = "null"
  /\ showMenu' = FALSE
  /\ UNCHANGED <<hostVars, parseVars, listId, toast, isSaving, isUploading, savePc, uploadVars,
                 opVars, formData, selectedFile>>

\* handleCancel: the Cancel button of the manual form is disabled while
\* isSaving, the one of the CSV form while isUploading
handleCancel ==
  /\ isAdding
  /\ \/ addMode = "manual" /\ ~isSaving
     \/ addMode = "csv" /\ ~isUploading
  /\ isAdding' = FALSE
  /\ addMode' = "null"
  /\ formData' = EmptyForm
  /\ selectedFile' = NoFile
  /\ showMenu' = FALSE
  /\ UNCHANGED <<hostVars, parseVars, listId, toast, isSaving, isUploading, savePc, uploadVars, opVars>>

\* handleInputChange: the inputs of the manual form are never disabled
handleInputChange ==
  /\ isAdding /\ addMode = "manual"
  /\ \E column \in Columns, value \in FormValues :
       formData' = (column :> value) @@ formData
  /\ UNCHANGED <<hostVars, parseVars, listId, isAdding, showMenu, addMode, toast, isSaving,
                 isUploading, selectedFile, savePc, uploadVars, opVars>>

\* handleFileChange: the file input of the CSV form is never disabled; the
\* dialog can also be dismissed with no file
\* a selection of any file, whatever its name, is taken
SelectFile_anyExtension(file) ==
  /\ isAdding /\ addMode = "csv"
  /\ IF file.present
     THEN /\ selectedFile' = file
          /\ UNCHANGED toast
     ELSE UNCHANGED <<toast, selectedFile>>
  /\ UNCHANGED <<hostVars, parseVars, listId, isAdding, showMenu, addMode, formData, isSaving,
                 isUploading, savePc, uploadVars, opVars>>

\* handleFileChange with event.target.files?.[0] = file
SelectFile(file) ==
  /\ isAdding /\ addMode = "csv"
  /\ IF file.present
     THEN IF ~EndsWith(file.name, DotCsv)
          THEN /\ toast' = [type |-> "error", message |-> <<"Please select a CSV file">>]
               /\ UNCHANGED selectedFile
          ELSE /\ selectedFile' = file
               /\ UNCHANGED toast
     ELSE UNCHANGED <<toast, selectedFile>>
  /\ UNCHANGED <<hostVars, parseVars, listId, isAdding, showMenu, addMode, formData, isSaving,
                 isUploading, savePc, uploadVars, opVars>>

handleFileChange == \E file \in FilesOf(folder) \cup {NoFile} : SelectFile(file)

\* the toast's onClose
closeToast ==
  /\ toast # NoToast
  /\ toast' = NoToast
  /\ UNCHANGED <<hostVars, parseVars, listId, isAdding, showMenu, addMode, formData, isSaving,
                 isUploading, selectedFile, savePc, uploadVars, opVars>>

\* prop tableName: getEntryTableName(selectedSubdomain.subdomain_name) || ''
TableName ==
  LET name == getEntryTableName(subdomainName)
  IN IF name = "null" THEN "" ELSE name

\* prop onEntryAdded: counted, and in DomainView a call of fetchEntries
onEntryAdded ==
  /\ refreshCount' = refreshCount + 1
  /\ IF host = "DomainView"
     THEN fetchEntries(selectedSubdomain, viewToast, "none")
     ELSE UNCHANGED fetchVars

\* the body's detail never looked at
ErrorMessage_statusOnly(resp) ==
  IF resp.kind = "error" THEN <<"Server error:", resp.status>>
  ELSE IF resp.kind = "thrown" THEN <<"Failed to fetch">>
  ELSE <<"Unexpected end of JSON input">>

\* errorData.detail || `Server error: ${response.status}`, where errorData is
\* response.json().catch(() => ({ detail: 'Unknown error' })); for a throw
\* of fetch or of response.json() on a 2xx, the Error's own message
ErrorMessage(resp) ==
  IF resp.kind = "error"
  THEN IF ~resp.body.json THEN <<"Unknown error">>
       ELSE IF resp.body.detail # "absent" THEN <<resp.body.detail>>
       ELSE <<"Server error:", resp.status>>
  ELSE IF resp.kind = "thrown" THEN <<"Failed to fetch">>
  ELSE <<"Unexpected end of JSON input">>

\* how a request ended: a 2xx whose body was read, a 2xx whose body is not
\* JSON, a non-2xx, a throw of fetch
Outcome(resp) ==
  IF resp.kind = "ok" THEN (IF resp.body.json THEN "ok" ELSE "okUnreadable")
  ELSE IF resp.kind = "error" THEN "rejected" ELSE "thrown"

\* the !response.ok test left out
Resolved_ignoreStatus(resp) == resp.kind # "thrown" /\ resp.body.json

\* the try block ran to its end: response.ok and response.json() resolved
Resolved(resp) == resp.kind = "ok" /\ resp.body.json

\* a Save button that is never disabled
handleSave_whileSaving ==
  /\ isAdding /\ addMode = "manual"
  /\ LET dataToSend == StripEmpty(formData)
     IN IF DOMAIN dataToSend = {}
        THEN /\ toast' = [type |-> "warning",
                          message |-> <<"Please fill in at least one field">>]
             /\ isSaving' = FALSE
             /\ requests' = <<>>
             /\ settled' = <<>>
             /\ lastResult' = "EmptyRecord"
             /\ UNCHANGED savePc
        ELSE /\ isSaving' = TRUE
             /\ requests' = <<[kind |-> "create_row", table |-> TableName,
                               body |-> dataToSend, row |-> 0]>>
             /\ settled' = <<"pending">>
             /\ lastResult' = "running"
             /\ savePc' = "awaitFetch"
             /\ UNCHANGED toast
  /\ refreshCount' = 0
  /\ UNCHANGED <<hostVars, parseVars, listId, isAdding, showMenu, addMode, formData, isUploading,
                 selectedFile, uploadVars>>

\* handleSave up to its await: the Save button is disabled while isSaving
handleSave ==
  /\ isAdding /\ addMode = "manual" /\ ~isSaving
  /\ LET dataToSend == StripEmpty(formData)
     IN IF DOMAIN dataToSend = {}
        THEN /\ toast' = [type |-> "warning",
                          message |-> <<"Please fill in at least one field">>]
             /\ isSaving' = FALSE
             /\ requests' = <<>>
             /\ settled' = <<>>
             /\ lastResult' = "EmptyRecord"
             /\ UNCHANGED savePc
        ELSE /\ isSaving' = TRUE
             /\ requests' = <<[kind |-> "create_row", table |-> TableName,
                               body |-> dataToSend, row |-> 0]>>
             /\ settled' = <<"pending">>
             /\ lastResult' = "running"
             /\ savePc' = "awaitFetch"
             /\ UNCHANGED toast
  /\ refreshCount' = 0
  /\ UNCHANGED <<hostVars, parseVars, listId, isAdding, showMenu, addMode, formData, isUploading,
                 selectedFile, uploadVars>>

\* handleSave from the fetch's settling to its end
SaveAnswered(resp) ==
  /\ savePc = "awaitFetch"
  /\ settled' = <<Outcome(resp)>>
  /\ IF Resolved(resp)
     THEN /\ toast' = [type |-> "success", message |-> <<"Entry added successfully!">>]
          /\ isAdding' = FALSE
          /\ formData' = EmptyForm
          /\ onEntryAdded
          /\ lastResult' = "saved"
     ELSE /\ toast' = [type |-> "error", message |-> ErrorMessage(resp)]
          /\ lastResult' = "saveFailed"
          /\ UNCHANGED <<isAdding, formData, refreshCount, fetchVars>>
  /\ isSaving' = FALSE
  /\ savePc' = "idle"
  /\ UNCHANGED <<outerVars, parseVars, listId, showMenu, addMode, isUploading, selectedFile,
                 uploadVars, requests>>

SaveResponse == \E resp \in Responses : SaveAnswered(resp)

\* if (listId): undefined and 0 are falsy
Truthy(id) == id.present /\ id.value # 0

\* the refresh signalled only when no row failed
UploadCompleted_refreshOnSuccess(message, type) ==
  /\ toast' = [type |-> type, message |-> message]
  /\ isAdding' = FALSE
  /\ addMode' = "null"
  /\ selectedFile' = NoFile
  /\ IF type = "success" THEN onEntryAdded ELSE UNCHANGED <<refreshCount, fetchVars>>
  /\ isUploading' = FALSE
  /\ upPc' = "idle"
  /\ lastResult' = "uploaded"

\* lines 228-231 and the finally: the upload is over
UploadCompleted(message, type) ==
  /\ toast' = [type |-> type, message |-> message]
  /\ isAdding' = FALSE
  /\ addMode' = "null"
  /\ selectedFile' = NoFile
  /\ onEntryAdded
  /\ isUploading' = FALSE
  /\ upPc' = "idle"
  /\ lastResult' = "uploaded"

\* the catch closing the form as the completion does
UploadFailed_closesForm(message) ==
  /\ toast' = [type |-> "error", message |-> message]
  /\ isUploading' = FALSE
  /\ upPc' = "idle"
  /\ lastResult' = "uploadFailed"
  /\ isAdding' = FALSE
  /\ addMode' = "null"
  /\ selectedFile' = NoFile
  /\ UNCHANGED <<refreshCount, fetchVars>>

\* the catch and the finally of handleCsvUpload
UploadFailed(message) ==
  /\ toast' = [type |-> "error", message |-> message]
  /\ isUploading' = FALSE
  /\ upPc' = "idle"
  /\ lastResult' = "uploadFailed"
  /\ UNCHANGED <<isAdding, addMode, selectedFile, refreshCount, fetchVars>>

\* handleCsvUpload up to its first await.  The Upload button is disabled
\* while isUploading or while no file is selected, so the handler's own
\* !selectedFile return is never taken.
handleCsvUpload ==
  /\ isAdding /\ addMode = "csv" /\ ~isUploading /\ selectedFile.present
  /\ isUploading' = TRUE
  /\ refreshCount' = 0
  /\ lastResult' = "running"
  /\ upFile' = selectedFile
  /\ upRows' = <<>>
  /\ upIdx' = 0
  /\ successCount' = 0
  /\ errorCount' = 0
  /\ IF Truthy(listId)
     THEN /\ requests' = <<[kind |-> "bulk_upload", list |-> listId,
                            body |-> selectedFile, row |-> 0]>>
          /\ settled' = <<"pending">>
          /\ upPc' = "awaitBulk"
     ELSE /\ requests' = <<>>
          /\ settled' = <<>>
          /\ upPc' = "reading"
  /\ UNCHANGED <<hostVars, parseVars, listId, isAdding, showMenu, addMode, formData, toast, isSaving,
                 selectedFile, savePc>>

\* the list-scoped branch from the fetch's settling to the handler's end
BulkAnswered(resp) ==
  /\ upPc = "awaitBulk"
  /\ settled' = <<Outcome(resp)>>
  /\ IF Resolved(resp)
     THEN UploadCompleted(<<"Successfully uploaded", resp.body.items,
                            "entries!">>, "success")
     ELSE UploadFailed(ErrorMessage(resp))
  /\ UNCHANGED <<outerVars, parseVars, listId, showMenu, formData, isSaving, savePc, upFile, upRows,
                 upIdx, successCount, errorCount, requests>>

BulkResponse == \E resp \in Responses : BulkAnswered(resp)

\* the rows without a non-empty field from position idx on are counted as
\* errors and passed over (errorCount++; continue)
RECURSIVE SkipEmptyRows(_, _, _)
SkipEmptyRows(rows, idx, ec) ==
  IF idx > Len(rows) THEN [idx |-> idx, errorCount |-> ec]
  ELSE IF DOMAIN StripEmpty(rows[idx]) = {}
       THEN SkipEmptyRows(rows, idx + 1, ec + 1)
       ELSE [idx |-> idx, errorCount |-> ec]

\* the row sent as parsed, its empty fields included
CreateRowRequest_wholeRow(rows, idx) ==
  [kind |-> "create_row", table |-> TableName, body |-> rows[idx], row |-> idx]

\* lines 198-204: the request of the row at position idx
CreateRowRequest(rows, idx) ==
  [kind |-> "create_row", table |-> TableName, body |-> StripEmpty(rows[idx]),
   row |-> idx]

\* every remaining row sent at once, none of them awaited
RowLoop_noAwait(rows, idx, sc, ec, setl) ==
  LET rest == SelectSeq([i \in 1..Len(rows) |-> i],
                        LAMBDA i : i >= idx /\ DOMAIN StripEmpty(rows[i]) # {})
  IN /\ rest # <<>>
     /\ requests' = requests \o [j \in 1..Len(rest) |-> CreateRowRequest(rows, rest[j])]
     /\ settled' = setl \o [j \in 1..Len(rest) |-> "pending"]
     /\ upIdx' = rest[Len(rest)]
     /\ successCount' = sc
     /\ errorCount' = ec
     /\ upPc' = "awaitRow"
     /\ UNCHANGED <<toast, isAdding, addMode, selectedFile, refreshCount,
                    isUploading, lastResult, fetchVars>>

\* a hard error when no row went through
CompletionToast_errorWhenNoneAdded(sc, ec) ==
  IF ec > 0
  THEN [type |-> IF sc = 0 THEN "error" ELSE "warning",
        message |-> <<"Uploaded", sc, "entries successfully.", ec, "entries failed.">>]
  ELSE [type |-> "success", message |-> <<"Successfully uploaded", sc, "entries!">>]

\* lines 218-225: the toast shown when the loop is over
CompletionToast(sc, ec) ==
  IF ec > 0
  THEN [type |-> "warning",
        message |-> <<"Uploaded", sc, "entries successfully.", ec, "entries failed.">>]
  ELSE [type |-> "success", message |-> <<"Successfully uploaded", sc, "entries!">>]

\* the for loop from position idx up to its next await, or to the end of
\* the handler when no row is left
RowLoop(rows, idx, sc, ec, setl) ==
  LET next == SkipEmptyRows(rows, idx, ec)
      done == CompletionToast(sc, next.errorCount)
  IN IF next.idx > Len(rows)
     THEN /\ settled' = setl
          /\ upIdx' = next.idx
          /\ successCount' = sc
          /\ errorCount' = next.errorCount
          /\ UNCHANGED requests
          /\ UploadCompleted(done.message, done.type)
     ELSE /\ requests' = Append(requests, CreateRowRequest(rows, next.idx))
          /\ settled' = Append(setl, "pending")
          /\ upIdx' = next.idx
          /\ successCount' = sc
          /\ errorCount' = next.errorCount
          /\ upPc' = "awaitRow"
          /\ UNCHANGED <<toast, isAdding, addMode, selectedFile, refreshCount,
                         isUploading, lastResult, fetchVars>>

\* reader.onload, and handleCsvUpload from the resolution of parseCsvFile
\* to its next await
FileLoaded ==
  /\ upPc = "reading"
  /\ LET result == parseCsvFile(upFile.text)
     IN IF ~result.ok
        THEN /\ UploadFailed(<<"CSV file must have at least a header row and one data row">>)
             /\ UNCHANGED <<upRows, upIdx, successCount, errorCount, requests, settled>>
        ELSE /\ upRows' = result.rows
             /\ RowLoop(result.rows, 1, 0, 0, settled)
  /\ UNCHANGED <<outerVars, parseVars, listId, showMenu, formData, isSaving, savePc, upFile>>

\* reader.onerror
FileReadError ==
  /\ upPc = "reading"
  /\ UploadFailed(<<"Failed to read file">>)
  /\ UNCHANGED <<outerVars, parseVars, listId, showMenu, formData, isSaving, savePc, upFile, upRows,
                 upIdx, successCount, errorCount, requests, settled>>

\* the catch without its errorCount++
CountRow_dropThrown(outcome, sc, ec) ==
  IF outcome = "ok" THEN [successCount |-> sc + 1, errorCount |-> ec]
  ELSE IF outcome = "rejected" THEN [successCount |-> sc, errorCount |-> ec + 1]
  ELSE [successCount |-> sc, errorCount |-> ec]

\* successCount++ when response.ok, errorCount++ otherwise and in the catch
CountRow(outcome, sc, ec) ==
  IF outcome = "ok" THEN [successCount |-> sc + 1, errorCount |-> ec]
  ELSE [successCount |-> sc, errorCount |-> ec + 1]

\* the row loop from the settling of a row's fetch to its next await
RowResponse ==
  /\ upPc = "awaitRow"
  /\ \E outcome \in RowOutcomes :
       LET counts == CountRow(outcome, successCount, errorCount)
           first == CHOOSE i \in InFlight : \A j \in InFlight : i <= j
       IN RowLoop(upRows, upIdx + 1, counts.successCount, counts.errorCount,
                  [settled EXCEPT ![first] = outcome])
  /\ UNCHANGED <<outerVars, parseVars, listId, showMenu, formData, isSaving, savePc, upFile, upRows>>

AddNext ==
  \/ handlePlusClick
  \/ handleClickOutside
  \/ handleManualAdd
  \/ handleCsvAdd
  \/ handleCancel
  \/ handleInputChange
  \/ handleFileChange
  \/ closeToast
  \/ handleSave
  \/ SaveResponse
  \/ handleCsvUpload
  \/ BulkResponse
  \/ FileLoaded
  \/ FileReadError
  \/ RowResponse


(***************************************************************************)
(* Sample templates (utils/csvTemplates.ts).  A rendered text is kept as   *)
(* the sequence of its pieces: each field is one element, and so is each   *)
(* separator.                                                              *)
(***************************************************************************)
\* most sample files downloaded in one behaviour
MaxDownloads == 2

CSV_TEMPLATES ==
  ("Target Lists" :>
     [headers |-> <<"hcp_id", "hcp_name", "specialty", "territory", "tier">>,
      sampleData |-> <<
        <<"HCP001", "Dr. Rajesh Kumar", "Cardiology", "North Delhi", "A">>,
        <<"HCP002", "Dr. Priya Sharma", "Neurology", "South Mumbai", "A">>,
        <<"HCP003", "Dr. Amit Patel", "Orthopedics", "East Bangalore", "B">>,
        <<"HCP004", "Dr. Sneha Reddy", "Oncology", "West Delhi", "A">>,
        <<"HCP005", "Dr. Vikram Singh", "Gastroenterology", "Central Gurugram", "B">>>>,
      filename |-> "target_lists_sample.csv"])
  @@ ("Call Lists" :>
     [headers |-> <<"hcp_id", "hcp_name", "call_date", "sales_rep", "status">>,
      sampleData |-> <<
        <<"HCP001", "Dr. Rajesh Kumar", "2025-11-01", "Arjun Kapoor", "Scheduled">>,
        <<"HCP002", "Dr. Priya Sharma", "2025-11-02", "Pooja Singh", "Scheduled">>,
        <<"HCP003", "Dr. Amit Patel", "2025-11-03", "Ravi Verma", "Pending">>,
        <<"HCP004", "Dr. Sneha Reddy", "2025-11-04", "Neha Agarwal", "Scheduled">>,
        <<"HCP005", "Dr. Vikram Singh", "2025-11-05", "Rahul Joshi", "Completed">>>>,
      filename |-> "call_lists_sample.csv"])
  @@ ("Formulary Decision-Maker Lists" :>
     [headers |-> <<"contact_id", "contact_name", "organization", "email", "influence_level">>,
      sampleData |-> <<
        <<"FDM001", "Dr. Rajiv Malhotra", "Max Healthcare", "rajiv.malhotra@max.com", "High">>,
        <<"FDM002", "Dr. Sunita Verma", "Apollo Hospitals", "sunita.verma@apollo.com", "High">>,
        <<"FDM003", "Mr. Anil Chopra", "Fortis Healthcare", "anil.chopra@fortis.com", "Medium">>,
        <<"FDM004", "Dr. Kiran Patel", "Medanta Hospital", "kiran.patel@medanta.com", "High">>,
        <<"FDM005", "Ms. Rekha Nair", "AIIMS Delhi", "rekha.nair@aiims.edu", "High">>>>,
      filename |-> "formulary_decision_maker_lists_sample.csv"])
  @@ ("IDN/Health System Lists" :>
     [headers |-> <<"system_id", "system_name", "contact_name", "contact_email", "importance">>,
      sampleData |-> <<
        <<"IDN001", "Apollo Hospitals Group", "Dr. Ravi Shankar", "ravi.shankar@apollo.com", "Tier 1">>,
        <<"IDN002", "Fortis Healthcare Network", "Ms. Priya Mathur", "priya.mathur@fortis.com", "Tier 1">>,
        <<"IDN003", "Max Healthcare System", "Mr. Sandeep Gupta", "sandeep.gupta@max.com", "Tier 2">>,
        <<"IDN004", "Medanta Network", "Dr. Arvind Kumar", "arvind.kumar@medanta.com", "Tier 1">>,
        <<"IDN005", "Narayana Health Group", "Dr. Lakshmi Rao", "lakshmi.rao@narayana.com", "Tier 2">>>>,
      filename |-> "idn_health_system_lists_sample.csv"])
  @@ ("Event Invitation Lists" :>
     [headers |-> <<"event_name", "event_date", "invitee_id", "invitee_name", "email", "status">>,
      sampleData |-> <<
        <<"Cardiology Summit 2025", "2025-12-15", "HCP001", "Dr. Rajesh Kumar", "rajesh.kumar@apollo.com", "Invited">>,
        <<"Neurology Conference", "2025-12-20", "HCP002", "Dr. Priya Sharma", "priya.sharma@fortis.com", "Confirmed">>,
        <<"Oncology Workshop", "2026-01-10", "HCP004", "Dr. Sneha Reddy", "sneha.reddy@aiims.edu", "Invited">>,
        <<"Gastro Symposium", "2026-01-25", "HCP005", "Dr. Vikram Singh", "vikram.singh@medanta.com", "Pending">>,
        <<"Endocrine Conclave", "2026-02-05", "HCP006", "Dr. Ananya Iyer", "ananya.iyer@apollo.com", "Confirmed">>>>,
      filename |-> "event_invitation_lists_sample.csv"])
  @@ ("Digital Engagement Lists" :>
     [headers |-> <<"contact_id", "contact_name", "email", "specialty", "opt_in">>,
      sampleData |-> <<
        <<"DG001", "Dr. Rajesh Kumar", "rajesh.kumar@apollo.com", "Cardiology", "TRUE">>,
        <<"DG002", "Dr. Priya Sharma", "priya.sharma@fortis.com", "Neurology", "TRUE">>,
        <<"DG003", "Dr. Amit Patel", "amit.patel@max.com", "Orthopedics", "FALSE">>,
        <<"DG004", "Dr. Sneha Reddy", "sneha.reddy@aiims.edu", "Oncology", "TRUE">>,
        <<"DG005", "Dr. Vikram Singh", "vikram.singh@medanta.com", "Gastroenterology", "TRUE">>>>,
      filename |-> "digital_engagement_lists_sample.csv"])
  @@ ("High-Value Prescriber Lists" :>
     [headers |-> <<"hcp_id", "hcp_name", "specialty", "territory", "total_prescriptions", "revenue", "value_tier">>,
      sampleData |-> <<
        <<"HCP001", "Dr. Rajesh Kumar", "Cardiology", "North Delhi", "850", "125000.50", "Platinum">>,
        <<"HCP002", "Dr. Priya Sharma", "Neurology", "South Mumbai", "720", "98000.75", "Gold">>,
        <<"HCP003", "Dr. Amit Patel", "Orthopedics", "East Bangalore", "550", "72000.00", "Gold">>,
        <<"HCP004", "Dr. Sneha Reddy", "Oncology", "West Delhi", "920", "145000.25", "Platinum">>,
        <<"HCP005", "Dr. Vikram Singh", "Gastroenterology", "Central Gurugram", "480", "65000.00", "Silver">>>>,
      filename |-> "high_value_prescriber_lists_sample.csv"])
  @@ ("Competitor Target Lists" :>
     [headers |-> <<"hcp_id", "hcp_name", "specialty", "territory", "competitor_product", "conversion_potential", "assigned_rep">>,
      sampleData |-> <<
        <<"HCP011", "Dr. Ramesh Patel", "Cardiology", "North Delhi", "CompetitorX CardioMed", "High", "Arjun Kapoor">>,
        <<"HCP012", "Dr. Lakshmi Menon", "Neurology", "South Mumbai", "CompetitorY NeuroPlus", "Medium", "Pooja Singh">>,
        <<"HCP013", "Dr. Sunil Reddy", "Orthopedics", "East Bangalore", "CompetitorZ BoneCare", "High", "Ravi Verma">>,
        <<"HCP014", "Dr. Anjali Desai", "Oncology", "West Delhi", "CompetitorX OncoMax", "High", "Neha Agarwal">>,
        <<"HCP015", "Dr. Karthik Iyer", "Gastroenterology", "Central Gurugram", "CompetitorY GastroRelief", "Low", "Rahul Joshi">>>>,
      filename |-> "competitor_target_lists_sample.csv"])

\* list types a caller asks for: those of the catalog and one it lacks
ListTypeInputs == DOMAIN CSV_TEMPLATES \cup {"Other Lists"}

\* Array.prototype.join on an array of texts
RECURSIVE Join(_, _)
Join(pieces, sep) ==
  IF pieces = <<>> THEN <<>>
  ELSE IF Len(pieces) = 1 THEN pieces[1]
  ELSE pieces[1] \o <<sep>> \o Join(Tail(pieces), sep)

\* the header row left out
arrayToCSV_noHeader(headers, data) ==
  LET rows == data
  IN Join([r \in 1..Len(rows) |->
             Join([c \in 1..Len(rows[r]) |-> <<rows[r][c]>>], ",")], "\n")

\* rows.map(row => row.join(',')).join('\n') with rows = [headers, ...data]
arrayToCSV(headers, data) ==
  LET rows == <<headers>> \o data
  IN Join([r \in 1..Len(rows) |->
             Join([c \in 1..Len(rows[r]) |-> <<rows[r][c]>>], ",")], "\n")

\* downloadCSV: the link's click hands the blob to the browser
downloadCSV(content, filename) ==
  downloads' = Append(downloads, [filename |-> filename, content |-> content])

\* downloadSampleCSV: a list type without a template is logged to the
\* console and the function returns
downloadSampleCSV(listType) ==
  IF listType \notin DOMAIN CSV_TEMPLATES
  THEN /\ lastCall' = [listType |-> listType, outcome |-> "returned",
                       logged |-> TRUE, downloaded |-> FALSE]
       /\ UNCHANGED downloads
  ELSE LET template == CSV_TEMPLATES[listType]
       IN /\ downloadCSV(arrayToCSV(template.headers, template.sampleData),
                         template.filename)
          /\ lastCall' = [listType |-> listType, outcome |-> "returned",
                          logged |-> FALSE, downloaded |-> TRUE]

\* domains.ts: the list types of the four domains
DOMAIN_CONFIGS ==
  << [key |-> "Customer/HCP", displayName |-> "Customer/HCP Lists",
      listTypes |-> <<"Target Lists", "Call Lists">>, domainId |-> 1],
     [key |-> "Account/Institutional", displayName |-> "Account/Institutional Lists",
      listTypes |-> <<"Formulary Decision-Maker Lists", "IDN/Health System Lists">>,
      domainId |-> 2],
     [key |-> "Marketing Campaign", displayName |-> "Marketing Campaign Lists",
      listTypes |-> <<"Event Invitation Lists", "Digital Engagement Lists">>,
      domainId |-> 3],
     [key |-> "Data/Analytics", displayName |-> "Data/Analytics Lists",
      listTypes |-> <<"High-Value Prescriber Lists", "Competitor Target Lists">>,
      domainId |-> 4] >>

\* the mapping without its entry for Call Lists
getListTypeFromSubdomain_noCallLists(name) ==
  LET mapping ==
        ("Target Lists" :> "Target Lists")
        @@ ("Formulary Decision-Maker Lists" :> "Formulary Decision-Maker Lists")
        @@ ("IDN/Health System Lists" :> "IDN/Health System Lists")
        @@ ("Event Invitation Lists" :> "Event Invitation Lists")
        @@ ("Digital Engagement Lists" :> "Digital Engagement Lists")
        @@ ("High-Value Prescriber Lists" :> "High-Value Prescriber Lists")
        @@ ("Competitor Target Lists" :> "Competitor Target Lists")
  IN IF name \in DOMAIN mapping THEN mapping[name] ELSE "null"

\* getListTypeFromSubdomain: mapping[subdomainName] || null
getListTypeFromSubdomain(name) ==
  LET mapping ==
        ("Target Lists" :> "Target Lists")
        @@ ("Call Lists" :> "Call Lists")
        @@ ("Formulary Decision-Maker Lists" :> "Formulary Decision-Maker Lists")
        @@ ("IDN/Health System Lists" :> "IDN/Health System Lists")
        @@ ("Event Invitation Lists" :> "Event Invitation Lists")
        @@ ("Digital Engagement Lists" :> "Digital Engagement Lists")
        @@ ("High-Value Prescriber Lists" :> "High-Value Prescriber Lists")
        @@ ("Competitor Target Lists" :> "Competitor Target Lists")
  IN IF name \in DOMAIN mapping THEN mapping[name] ELSE "null"

\* handleDownloadSample: its button is rendered in the CSV form when the
\* prop subdomainName is passed, so the handler's own !subdomainName return
\* is never taken; downloadSampleCSV does not throw, so neither is its catch
handleDownloadSample ==
  /\ isAdding /\ addMode = "csv" /\ subdomainName # ""
  /\ Len(downloads) < MaxDownloads
  /\ LET listType == getListTypeFromSubdomain(subdomainName)
     IN IF listType = "null"
        THEN /\ toast' = [type |-> "error",
                          message |-> <<"No sample template available for this list type">>]
             /\ UNCHANGED sampleVars
        ELSE /\ downloadSampleCSV(listType)
             /\ toast' = [type |-> "success",
                          message |-> <<"Sample CSV downloaded successfully!">>]
  /\ UNCHANGED <<asideVars, viewVars, fetchVars, httpVars, parseVars, listId, isAdding, showMenu,
                 addMode, formData, isSaving, isUploading, selectedFile, savePc,
                 uploadVars, opVars>>

\* downloadSampleCSV called by any other caller, with any list type
RenderSample ==
  /\ Len(downloads) < MaxDownloads
  /\ \E listType \in ListTypeInputs : downloadSampleCSV(listType)
  /\ UNCHANGED <<asideVars, viewVars, fetchVars, httpVars, parseVars, addVars>>

(***************************************************************************)
(* The HTTP requests of the client: those sent through axiosClient pass    *)
(* its request interceptor, those sent with fetch carry the headers of     *)
(* their call.                                                             *)
(***************************************************************************)
\* most requests kept in one behaviour
MaxSent == 2

\* what localStorage.getItem('sb_token') can return
Tokens == {"null", "", "jwt"}

NoHeaders == [h \in {} |-> <<>>]
JsonContent == ("Content-Type" :> <<"application/json">>)

\* instance.interceptors.request.use: if (token && config.headers)
Intercept(config) ==
  IF token \notin {"null", ""}
  THEN [config EXCEPT !.headers = ("Authorization" :> <<"Bearer ", token>>) @@ @]
  ELSE config

\* a request leaving the client, with the stored token of that moment
Send(config) ==
  /\ Len(sent) < MaxSent
  /\ sent' = Append(sent, [config EXCEPT !.stored = token])
  /\ UNCHANGED <<token, asideVars, viewVars, fetchVars, sampleVars, parseVars, addVars>>

axiosRequest(op, method, url) ==
  Send(Intercept([op |-> op, method |-> method, url |-> url, headers |-> NoHeaders,
                  stored |-> "null"]))

fetchRequest(op, method, url, headers) ==
  Send([op |-> op, method |-> method, url |-> url, headers |-> headers,
        stored |-> "null"])

\* another page of the application signs the user in or out
StoreToken ==
  /\ \E t \in Tokens : t # token /\ token' = t
  /\ UNCHANGED <<sent, asideVars, viewVars, fetchVars, sampleVars, parseVars, addVars>>

\* listApi.ts, getLists
getLists == axiosRequest("getLists", "GET", "/api/lists")

\* listApi.ts, getSubdomains
getSubdomains == axiosRequest("getSubdomains", "GET", "/api/subdomains")

\* DomainView, fetchEntries
GetEntries == axiosRequest("fetchEntries", "GET", "/api/{tableName}")

\* DomainView, confirmDelete
DeleteRow == axiosRequest("confirmDelete", "DELETE", "/api/{tableName}/{entryId}")

\* listBotApi, postListBotQuery
postListBotQuery == axiosRequest("postListBotQuery", "POST", "/api/chatbot/query")

\* InlineAddEntry, handleSave and the row loop of handleCsvUpload
CreateRow ==
  fetchRequest("create_row", "POST", "http://localhost:8000/api/{tableName}", JsonContent)

\* InlineAddEntry, the list-scoped branch of handleCsvUpload
UploadCsv ==
  fetchRequest("bulk_upload", "POST",
               "http://localhost:8000/api/lists/{listId}/upload-csv", NoHeaders)

\* IngestionHub, handleSubmit
IngestionUpload ==
  fetchRequest("ingestion", "POST", "http://localhost:8000/api/injection/upload",
               NoHeaders)

(***************************************************************************)
(* DomainView (part_002 from line 345).  The effects that React runs after *)
(* a render are part of the step that caused the render, except the        *)
(* onAddingStateChange effects of the two InlineAddEntry instances, which  *)
(* are steps of their own that run before anything else does.              *)
(***************************************************************************)
otherVars == <<asideVars, sampleVars, httpVars, parseVars, addVars>>

Range(seq) == {seq[i] : i \in 1..Len(seq)}

\* DomainView after its first render: the loading screen is shown, the
\* subdomains are being fetched, the interval is registered
ViewInit ==
  /\ host = "DomainView"
  /\ subdomains = <<>>
  /\ selectedSubdomain = NoSubdomain
  /\ entries = <<>>
  /\ viewToast = NoToast
  /\ loading = TRUE
  /\ entriesLoading = FALSE
  /\ isAddingEntry = FALSE
  /\ isEditMode = FALSE
  /\ selectedEntries = {}
  /\ isDeleting = FALSE
  /\ showDeleteConfirm = FALSE
  /\ pollInterval = TRUE
  /\ subPc = "awaitSubdomains"
  /\ fetches = <<>>
  /\ delPc = "idle"
  /\ deletes = <<>>
  /\ deleted = <<>>
  /\ reported = FALSE
  /\ isRefreshing = FALSE
  /\ refreshPc = "idle"

\* the add button (lines 734-741) is mounted, the form instance (lines
\* 818-827) is mounted
AddMounted ==
  host = "DomainView" /\ ~loading /\ selectedSubdomain # NoSubdomain /\ ~isEditMode
FormMounted ==
  host = "DomainView" /\ ~loading /\ selectedSubdomain # NoSubdomain /\ isAddingEntry

\* no onAddingStateChange effect is waiting to run
Settled == reported = isAdding /\ ~FormMounted

\* the page is rendered and the confirmation modal does not cover it
ViewUsable == host = "DomainView" /\ Settled /\ ~loading /\ ~showDeleteConfirm

\* the effect of lines 523-527 and the polling effect, which both run
\* again when selectedSubdomain (and with it fetchEntries) has changed
SubdomainEffects(sub) ==
  /\ isEditMode' = FALSE
  /\ selectedEntries' = {}
  /\ fetchEntries(sub, viewToast, "none")
  /\ pollInterval' = ~isAddingEntry

\* the effect of lines 497-520 from the answer of getSubdomains on, the
\* backend answering with one of lists or not at all
SubdomainsLoaded(lists) ==
  /\ host = "DomainView" /\ subPc = "awaitSubdomains"
  /\ subPc' = "done"
  /\ loading' = FALSE
  /\ \/ \E list \in lists :
          /\ subdomains' = list
          /\ IF list # <<>>
             THEN /\ selectedSubdomain' = list[1]
                  /\ SubdomainEffects(list[1])
             ELSE UNCHANGED <<selectedSubdomain, isEditMode, selectedEntries, fetchVars,
                              pollInterval>>
     \/ /\ viewToast' = [type |-> "error",
                         message |-> <<"Failed to load subdomains. Please try again.">>]
        /\ UNCHANGED <<subdomains, selectedSubdomain, isEditMode, selectedEntries,
                       entries, entriesLoading, fetches, pollInterval>>
  /\ UNCHANGED <<host, isAddingEntry, isDeleting, showDeleteConfirm, delPc, deletes,
                 deleted, reported, refreshVars, otherVars>>

SubdomainsResponse == SubdomainsLoaded(SubdomainLists)

\* a domain with two subdomains that both have a table
TwoTables == {<<CallLists, EventLists>>}
TwoTablesResponse == SubdomainsLoaded(TwoTables)

\* the route's domainKey changes to another domain of DOMAIN_CONFIGS: the
\* effect of lines 497-520 up to its await.  The user is taken to leave
\* the page for another domain when the subdomains are loaded, no modal
\* covers the page and the add form is closed; the load that follows
\* calls fetchEntries, so fewer than MaxFetches GETs are pending.
DomainChange ==
  /\ ViewUsable /\ subPc = "done"
  /\ ~isAdding /\ savePc = "idle" /\ upPc = "idle"
  /\ Len(fetches) < MaxFetches
  /\ loading' = TRUE
  /\ isEditMode' = FALSE
  /\ selectedEntries' = {}
  /\ subPc' = "awaitSubdomains"
  /\ UNCHANGED <<host, subdomains, selectedSubdomain, isAddingEntry, isDeleting,
                 showDeleteConfirm, pollInterval, delPc, deletes, deleted, reported,
                 refreshVars, fetchVars, otherVars>>

\* the onChange of the select (lines 640-645).  The user is taken not to
\* switch while a save or an upload of the add form is in flight.
handleSubdomainChange ==
  /\ ViewUsable
  /\ Len(fetches) < MaxFetches
  /\ savePc = "idle" /\ upPc = "idle"
  /\ \E sub \in Range(subdomains) :
       /\ sub # selectedSubdomain
       /\ selectedSubdomain' = sub
       /\ SubdomainEffects(sub)
  /\ UNCHANGED <<host, subdomains, loading, isAddingEntry, isDeleting, showDeleteConfirm,
                 subPc, delPc, deletes, deleted, reported, refreshVars, otherVars>>

\* fetchEntries from the answer of its GET on; the answers come in any
\* order.  The finally of confirmDelete follows the call it awaits.
EntriesResponse ==
  /\ host = "DomainView" /\ Settled
  /\ \E i \in 1..Len(fetches) :
       /\ fetches' = [j \in 1..(Len(fetches) - 1) |->
                        IF j < i THEN fetches[j] ELSE fetches[j + 1]]
       /\ \/ \E data \in EntryLists(fetches[i].table) :
               /\ entries' = data
               /\ UNCHANGED viewToast
          \/ /\ entries' = <<>>
             /\ viewToast' = [type |-> "error",
                              message |-> <<"Failed to load entries. Please try again.">>]
       /\ entriesLoading' = FALSE
       /\ IF fetches[i].waiter = "confirmDelete"
          THEN /\ isDeleting' = FALSE
               /\ delPc' = "idle"
          ELSE UNCHANGED <<isDeleting, delPc>>
       /\ refreshPc' = IF fetches[i].waiter = "handleRefresh" THEN "timer" ELSE refreshPc
  /\ UNCHANGED <<host, subdomains, selectedSubdomain, loading, isAddingEntry, isEditMode,
                 selectedEntries, showDeleteConfirm, pollInterval, subPc, deletes,
                 deleted, reported, isRefreshing, otherVars>>

\* the callback of setInterval (lines 535-537)
PollTick ==
  /\ host = "DomainView" /\ Settled
  /\ pollInterval
  /\ Len(fetches) < MaxFetches
  /\ fetchEntries(selectedSubdomain, viewToast, "none")
  /\ UNCHANGED <<viewVars, otherVars>>

\* handleRefresh up to the end of the fetchEntries it awaits when that call
\* sends nothing, or up to its GET: the refresh button is disabled while
\* isRefreshing
handleRefresh ==
  /\ ViewUsable
  /\ ~isRefreshing
  /\ Len(fetches) < MaxFetches
  /\ isRefreshing' = TRUE
  /\ isEditMode' = FALSE
  /\ selectedEntries' = {}
  /\ fetchEntries(selectedSubdomain, viewToast, "handleRefresh")
  /\ refreshPc' = IF Len(fetches') > Len(fetches) THEN "awaitFetch" ELSE "timer"
  /\ UNCHANGED <<host, subdomains, selectedSubdomain, loading, isAddingEntry, isDeleting,
                 showDeleteConfirm, pollInterval, subPc, delPc, deletes, deleted,
                 reported, otherVars>>

\* the callback of the setTimeout of 500 ms that ends handleRefresh
RefreshTimeout ==
  /\ host = "DomainView" /\ Settled
  /\ refreshPc = "timer"
  /\ isRefreshing' = FALSE
  /\ refreshPc' = "idle"
  /\ UNCHANGED <<host, subdomains, selectedSubdomain, loading, isAddingEntry, isEditMode,
                 selectedEntries, isDeleting, showDeleteConfirm, pollInterval, subPc,
                 delPc, deletes, deleted, reported, fetchVars, otherVars>>

\* the onClose of DomainView's toast
closeViewToast ==
  /\ host = "DomainView" /\ Settled
  /\ viewToast # NoToast
  /\ viewToast' = NoToast
  /\ UNCHANGED <<entries, entriesLoading, fetches, viewVars, otherVars>>

\* the Edit button (line 726), rendered next to the add button
EnterEditMode ==
  /\ ViewUsable /\ selectedSubdomain # NoSubdomain /\ ~isEditMode
  /\ isEditMode' = TRUE
  /\ UNCHANGED <<host, subdomains, selectedSubdomain, loading, isAddingEntry,
                 selectedEntries, isDeleting, showDeleteConfirm, pollInterval, subPc,
                 delPc, deletes, deleted, reported, fetchVars, refreshVars, otherVars>>

\* a cancel that leaves the ticks
CancelEditMode_keepsSelection ==
  /\ ViewUsable /\ selectedSubdomain # NoSubdomain /\ isEditMode
  /\ isEditMode' = FALSE
  /\ UNCHANGED <<host, subdomains, selectedSubdomain, loading, isAddingEntry,
                 isDeleting, showDeleteConfirm, pollInterval, subPc, delPc, deletes,
                 deleted, reported, selectedEntries, refreshVars, fetchVars, otherVars>>

\* the Cancel button of edit mode (lines 691-696)
CancelEditMode ==
  /\ ViewUsable /\ selectedSubdomain # NoSubdomain /\ isEditMode
  /\ isEditMode' = FALSE
  /\ selectedEntries' = {}
  /\ UNCHANGED <<host, subdomains, selectedSubdomain, loading, isAddingEntry,
                 isDeleting, showDeleteConfirm, pollInterval, subPc, delPc, deletes,
                 deleted, reported, fetchVars, refreshVars, otherVars>>

\* the check boxes are rendered in edit mode, over the table of entries
RowsShown ==
  /\ ViewUsable /\ selectedSubdomain # NoSubdomain /\ isEditMode
  /\ ~entriesLoading /\ entries # <<>>

\* the table name of the render (line 585), '' when there is none
RenderedTable ==
  LET name == getEntryTableName(selectedSubdomain.subdomain_name)
  IN IF name = "null" THEN "" ELSE name

\* handleToggleEntry, from the check box of a row
handleToggleEntry ==
  /\ RowsShown
  /\ \E entry \in Range(entries) :
       LET entryId == getEntryId(entry, RenderedTable)
       IN selectedEntries' = IF entryId \in selectedEntries
                             THEN selectedEntries \ {entryId}
                             ELSE selectedEntries \cup {entryId}
  /\ UNCHANGED <<host, subdomains, selectedSubdomain, loading, isAddingEntry, isEditMode,
                 isDeleting, showDeleteConfirm, pollInterval, subPc, delPc, deletes,
                 deleted, reported, fetchVars, refreshVars, otherVars>>

\* handleSelectAll, from the check box of the table head
handleSelectAll ==
  /\ RowsShown
  /\ LET tableName == getEntryTableName(selectedSubdomain.subdomain_name)
     IN IF tableName = "null" THEN UNCHANGED selectedEntries
        ELSE IF Cardinality(selectedEntries) = Len(entries)
        THEN selectedEntries' = {}
        ELSE selectedEntries' = {getEntryId(e, tableName) : e \in Range(entries)}
  /\ UNCHANGED <<host, subdomains, selectedSubdomain, loading, isAddingEntry, isEditMode,
                 isDeleting, showDeleteConfirm, pollInterval, subPc, delPc, deletes,
                 deleted, reported, fetchVars, refreshVars, otherVars>>

\* handleDeleteSelected: the button is disabled while nothing is selected
\* or isDeleting, so the handler's own warning is never shown
handleDeleteSelected ==
  /\ ViewUsable /\ selectedSubdomain # NoSubdomain /\ isEditMode
  /\ selectedEntries # {} /\ ~isDeleting
  /\ showDeleteConfirm' = TRUE
  /\ UNCHANGED <<host, subdomains, selectedSubdomain, loading, isAddingEntry, isEditMode,
                 selectedEntries, isDeleting, pollInterval, subPc, delPc, deletes,
                 deleted, reported, fetchVars, refreshVars, otherVars>>

\* the modal's Cancel, disabled while isDeleting
cancelDelete ==
  /\ host = "DomainView" /\ Settled /\ showDeleteConfirm /\ ~isDeleting
  /\ showDeleteConfirm' = FALSE
  /\ UNCHANGED <<host, subdomains, selectedSubdomain, loading, isAddingEntry, isEditMode,
                 selectedEntries, isDeleting, pollInterval, subPc, delPc, deletes,
                 deleted, reported, fetchVars, refreshVars, otherVars>>

\* Array.from(selectedEntries), taken in the order of the ids
RECURSIVE IdsInOrder(_)
IdsInOrder(ids) ==
  IF ids = {} THEN <<>>
  ELSE LET least == CHOOSE x \in ids : \A y \in ids : x <= y
       IN <<least>> \o IdsInOrder(ids \ {least})

\* only the first selected id deleted
DeleteRequests_firstOnly(ids, tableName) ==
  LET order == SubSeq(IdsInOrder(ids), 1, 1)
  IN [i \in 1..Len(order) |->
        [kind |-> "delete_row", table |-> tableName, id |-> order[i]]]

\* lines 476-478: one axiosClient.delete per selected id
DeleteRequests(ids, tableName) ==
  LET order == IdsInOrder(ids)
  IN [i \in 1..Len(order) |->
        [kind |-> "delete_row", table |-> tableName, id |-> order[i]]]

\* confirmDelete up to its await Promise.all: the modal's Delete button,
\* disabled while isDeleting.  The user is taken not to confirm a deletion
\* while requests of the previous one are still in flight.
confirmDelete ==
  /\ host = "DomainView" /\ Settled /\ showDeleteConfirm /\ ~isDeleting
  /\ \A i \in 1..Len(deleted) : deleted[i] # "pending"
  /\ LET tableName == getEntryTableName(selectedSubdomain.subdomain_name)
     IN IF tableName = "null"
        THEN /\ viewToast' = [type |-> "error", message |-> <<"Failed to delete entries">>]
             /\ showDeleteConfirm' = FALSE
             /\ deletes' = <<>>
             /\ deleted' = <<>>
             /\ UNCHANGED <<isDeleting, delPc>>
        ELSE /\ isDeleting' = TRUE
             /\ deletes' = DeleteRequests(selectedEntries, tableName)
             /\ deleted' = [i \in 1..Len(deletes') |-> "pending"]
             /\ delPc' = "awaitAll"
             /\ UNCHANGED <<viewToast, showDeleteConfirm>>
  /\ UNCHANGED <<host, subdomains, selectedSubdomain, loading, isAddingEntry, isEditMode,
                 selectedEntries, pollInterval, subPc, reported, entries,
                 entriesLoading, fetches, refreshVars, otherVars>>

\* the catch and the finally of confirmDelete
DeleteFailed ==
  /\ viewToast' = [type |-> "error",
                   message |-> <<"Failed to delete some entries. Please try again.">>]
  /\ showDeleteConfirm' = FALSE
  /\ isDeleting' = FALSE
  /\ delPc' = "idle"
  /\ UNCHANGED <<selectedEntries, isEditMode, entries, entriesLoading, fetches>>

\* a success branch that leaves edit mode on and the ticks in place
DeleteSucceeded_keepsSelection ==
  /\ showDeleteConfirm' = FALSE
  /\ fetchEntries(selectedSubdomain,
                  [type |-> "success",
                   message |-> <<"Successfully deleted", Len(deletes),
                                 IF Len(deletes) = 1 THEN "entry" ELSE "entries">>],
                  "confirmDelete")
  /\ delPc' = "awaitFetch"
  /\ UNCHANGED <<isDeleting, selectedEntries, isEditMode>>

\* lines 482-486: every deletion went through; fetchEntries is awaited
DeleteSucceeded ==
  /\ selectedEntries' = {}
  /\ isEditMode' = FALSE
  /\ showDeleteConfirm' = FALSE
  /\ fetchEntries(selectedSubdomain,
                  [type |-> "success",
                   message |-> <<"Successfully deleted", Len(deletes),
                                 IF Len(deletes) = 1 THEN "entry" ELSE "entries">>],
                  "confirmDelete")
  /\ delPc' = "awaitFetch"
  /\ UNCHANGED isDeleting

\* the answer to one delete request.  Promise.all rejects with the first
\* failure and resolves with the last success; the requests still in
\* flight after a failure go on, and their answers are looked at by no one.
DeleteResponse ==
  /\ host = "DomainView" /\ Settled
  /\ \E i \in 1..Len(deleted), result \in {"ok", "failed"} :
       /\ deleted[i] = "pending"
       /\ deleted' = [deleted EXCEPT ![i] = result]
       /\ IF delPc = "awaitAll" /\ result = "failed"
          THEN DeleteFailed
          ELSE IF delPc = "awaitAll" /\ \A j \in 1..Len(deleted) : deleted'[j] = "ok"
          THEN DeleteSucceeded
          ELSE UNCHANGED <<viewToast, showDeleteConfirm, isDeleting, delPc,
                           selectedEntries, isEditMode, entries, entriesLoading, fetches>>
  /\ UNCHANGED <<host, subdomains, selectedSubdomain, loading, isAddingEntry,
                 pollInterval, subPc, deletes, reported, refreshVars, otherVars>>

\* the effect of the add button (InlineAddEntry, lines 27-31) after its
\* isAdding has changed: setIsAddingEntry(isAdding); when isAddingEntry
\* changes, the polling effect of DomainView runs again
NotifyParent ==
  /\ AddMounted
  /\ reported # isAdding
  /\ reported' = isAdding
  /\ isAddingEntry' = isAdding
  /\ pollInterval' = IF isAdding # isAddingEntry THEN ~isAdding ELSE pollInterval
  /\ UNCHANGED <<host, subdomains, selectedSubdomain, loading, isEditMode,
                 selectedEntries, isDeleting, showDeleteConfirm, subPc, delPc, deletes,
                 deleted, fetchVars, refreshVars, otherVars>>

\* the same effect of the form instance, which is mounted when
\* isAddingEntry becomes true and whose own isAdding is false
FormInstanceNotifies ==
  /\ FormMounted
  /\ isAddingEntry' = FALSE
  /\ pollInterval' = TRUE
  /\ UNCHANGED <<host, subdomains, selectedSubdomain, loading, isEditMode,
                 selectedEntries, isDeleting, showDeleteConfirm, subPc, delPc, deletes,
                 deleted, reported, fetchVars, refreshVars, otherVars>>

(***************************************************************************)
(* The parser on its own: every text up to MaxTextLen is parsed once.      *)
(***************************************************************************)
NotParsed == [ok |-> FALSE, error |-> "pending", rows |-> <<>>]

ParseInit ==
  /\ text \in Texts
  /\ parsed = NotParsed
  /\ AddInit
  /\ listId = NoListId
  /\ folder = "plain"
  /\ ChatInit
  /\ HostInit

ParseText ==
  /\ parsed = NotParsed
  /\ parsed' = parseCsvFile(text)
  /\ UNCHANGED <<text, addVars, hostVars>>

ParseNext == ParseText

vars == <<addVars, parseVars, hostVars>>

ParseSpec == ParseInit /\ [][ParseNext]_vars

\* the add-entry workflow; the parser runs inside it, on the selected file
Init ==
  /\ AddInit
  /\ folder = "plain"
  /\ ChatInit
  /\ HostInit
  /\ text = <<>>
  /\ parsed = NotParsed

Next == AddNext

Spec == Init /\ [][Next]_vars

\* the workflow as DomainView mounts it, without a list id, over the files
\* with quoted fields
RowInit ==
  /\ AddInit
  /\ listId = NoListId
  /\ folder = "quoted"
  /\ ChatInit
  /\ HostInit
  /\ text = <<>>
  /\ parsed = NotParsed

RowNext ==
  \/ handlePlusClick
  \/ handleClickOutside
  \/ handleManualAdd
  \/ handleCsvAdd
  \/ handleCancel
  \/ handleInputChange
  \/ handleFileChange
  \/ closeToast
  \/ handleSave
  \/ SaveResponse
  \/ handleCsvUpload
  \/ FileLoaded
  \/ FileReadError
  \/ RowResponse

RowSpec == RowInit /\ [][RowNext]_vars

\* the CSV form and its sample download, for a subdomain with a template
\* and for one without, next to other callers of downloadSampleCSV
TemplateInit ==
  /\ AddInit
  /\ listId = NoListId
  /\ folder = "plain"
  /\ ChatInit
  /\ downloads = <<>>
  /\ lastCall = NoCall
  /\ token = "null"
  /\ sent = <<>>
  /\ host = "other"
  /\ \E sub \in {CallLists, OtherLists} : ViewShown(sub)
  /\ text = <<>>
  /\ parsed = NotParsed

TemplateNext ==
  \/ handlePlusClick
  \/ handleClickOutside
  \/ handleCsvAdd
  \/ handleCancel
  \/ closeToast
  \/ handleDownloadSample
  \/ RenderSample

TemplateSpec == TemplateInit /\ [][TemplateNext]_vars

\* the requests of the client under every content of the token storage
HttpInit ==
  /\ AddInit
  /\ listId = NoListId
  /\ folder = "plain"
  /\ ChatInit
  /\ downloads = <<>>
  /\ lastCall = NoCall
  /\ token \in Tokens
  /\ sent = <<>>
  /\ host = "other"
  /\ ViewShown(CallLists)
  /\ text = <<>>
  /\ parsed = NotParsed

HttpNext ==
  \/ StoreToken
  \/ getLists
  \/ getSubdomains
  \/ GetEntries
  \/ DeleteRow
  \/ postListBotQuery
  \/ CreateRow
  \/ UploadCsv
  \/ IngestionUpload

HttpSpec == HttpInit /\ [][HttpNext]_vars

\* DomainView and its add button: the user adds entries and switches
\* between subdomains, never enters edit mode, and is done before the
\* interval of two minutes has passed
HostedInit ==
  /\ AddInit
  /\ listId = NoListId
  /\ folder = "single"
  /\ ChatInit
  /\ downloads = <<>>
  /\ lastCall = NoCall
  /\ token = "null"
  /\ sent = <<>>
  /\ ViewInit
  /\ text = <<>>
  /\ parsed = NotParsed

\* the add button is there and its effects have run
AddUsable == AddMounted /\ Settled

\* a save or an upload is started while fewer than MaxFetches GETs of the
\* entries are pending: its success calls fetchEntries once more
CanFetch == Len(fetches) < MaxFetches

HostedNext ==
  \/ AddUsable /\ handlePlusClick
  \/ AddUsable /\ handleClickOutside
  \/ AddUsable /\ handleManualAdd
  \/ AddUsable /\ handleCsvAdd
  \/ AddUsable /\ handleCancel
  \/ AddUsable /\ handleInputChange
  \/ AddUsable /\ handleFileChange
  \/ AddUsable /\ CanFetch /\ handleSave
  \/ AddUsable /\ SaveResponse
  \/ AddUsable /\ CanFetch /\ handleCsvUpload
  \/ AddUsable /\ FileLoaded
  \/ AddUsable /\ RowResponse
  \/ NotifyParent
  \/ FormInstanceNotifies
  \/ SubdomainsResponse
  \/ handleSubdomainChange
  \/ EntriesResponse

HostedSpec == HostedInit /\ [][HostedNext]_vars

\* DomainView, its interval and the menu of its add button: the user opens
\* and leaves the add form and switches between subdomains
PollInit == HostedInit

PollNext ==
  \/ AddUsable /\ handlePlusClick
  \/ AddUsable /\ handleClickOutside
  \/ AddUsable /\ handleManualAdd
  \/ AddUsable /\ handleCsvAdd
  \/ AddUsable /\ handleCancel
  \/ NotifyParent
  \/ FormInstanceNotifies
  \/ SubdomainsResponse
  \/ handleSubdomainChange
  \/ EntriesResponse
  \/ PollTick
  \/ closeViewToast

PollSpec == PollInit /\ [][PollNext]_vars

\* DomainView and its edit mode: the user selects and deletes entries and
\* switches between subdomains, and never opens the add form
DomainInit == HostedInit

DomainNext ==
  \/ SubdomainsResponse
  \/ handleSubdomainChange
  \/ EntriesResponse
  \/ PollTick
  \/ closeViewToast
  \/ EnterEditMode
  \/ CancelEditMode
  \/ handleToggleEntry
  \/ handleSelectAll
  \/ handleDeleteSelected
  \/ cancelDelete
  \/ confirmDelete
  \/ DeleteResponse

DomainSpec == DomainInit /\ [][DomainNext]_vars

\* DomainView's edit mode and every way out of it: cancel, refresh, another
\* subdomain, another domain, a delete; the user is done before the
\* interval of two minutes has passed and leaves the toasts alone
EditNext ==
  \/ SubdomainsResponse
  \/ handleSubdomainChange
  \/ EntriesResponse
  \/ EnterEditMode
  \/ CancelEditMode
  \/ handleToggleEntry
  \/ handleSelectAll
  \/ handleDeleteSelected
  \/ cancelDelete
  \/ confirmDelete
  \/ DeleteResponse
  \/ handleRefresh
  \/ RefreshTimeout
  \/ DomainChange

EditSpec == HostedInit /\ [][EditNext]_vars

\* DomainView of a domain with two tables: the user switches between the
\* subdomains and refreshes, the interval ticks, the answers come late
RaceInit == HostedInit

RaceNext ==
  \/ TwoTablesResponse
  \/ handleSubdomainChange
  \/ EntriesResponse
  \/ PollTick
  \/ handleRefresh
  \/ RefreshTimeout
  \/ closeViewToast

RaceSpec == RaceInit /\ [][RaceNext]_vars

(***************************************************************************)
(* The chat sidebar: SidebarListBot (part_004) and the hook useListBotChat. *)
(* sendMessage is split at its await; the Send button is never disabled    *)
(* by loading, so a question can be sent while earlier ones are pending.   *)
(* clearMessages has no button in the sidebar and is left out.             *)
(***************************************************************************)
\* how many questions the user sends
MaxSends == 3

\* what the user types or picks from the sample questions
ChatInputs == {<<>>, <<" ">>, <<"a">>, <<"b", " ">>}

\* what the backend answers
ChatAnswers == {<<"4", "2">>}

pageVars == <<folder, sampleVars, httpVars, viewVars, fetchVars, parseVars, addVars>>

\* onChange of the question field, onClick of a sample question
setInput ==
  /\ \E t \in ChatInputs : t # input /\ input' = t
  /\ UNCHANGED <<messages, chatLoading, queries, pageVars>>

\* useListBotChat, sendMessage up to its await: chat_history is taken from
\* the messages of the render the call was made in; postListBotQuery does
\* not post the domain
sendMessage(domain, query) ==
  /\ chatLoading' = TRUE
  /\ messages' = Append(messages, [role |-> "user", content |-> query])
  /\ queries' = Append(queries,
                       [question |-> query, chat_history |-> messages,
                        session_id |-> "default", state |-> "pending",
                        answer |-> <<>>,
                        userAt |-> Len(messages) + 1, replyAt |-> 0])

\* SidebarListBot, handleSend up to its await
handleSend ==
  /\ Trim(input) # <<>>
  /\ Len(queries) < MaxSends
  /\ sendMessage(<<>>, input)
  /\ UNCHANGED <<input, pageVars>>

\* the assistant message taken from the messages of the call's render
QuerySettled_staleMessages(i, outcome) ==
  /\ queries[i].state = "pending"
  /\ messages' = Append(queries[i].chat_history,
                        [role |-> "assistant",
                         content |-> IF outcome.ok THEN outcome.answer ELSE Apology])
  /\ chatLoading' = FALSE
  /\ input' = <<>>
  /\ queries' = [queries EXCEPT ![i].state = IF outcome.ok THEN "answered" ELSE "failed",
                                ![i].answer = outcome.answer,
                                ![i].replyAt = Len(messages) + 1]
  /\ UNCHANGED pageVars

\* sendMessage after its await (lines 26-35), then the rest of handleSend
\* (line 13): the answer or the apology is appended by an updater, loading
\* is cleared, the question field is emptied
QuerySettled(i, outcome) ==
  /\ queries[i].state = "pending"
  /\ messages' = Append(messages,
                        [role |-> "assistant",
                         content |-> IF outcome.ok THEN outcome.answer ELSE Apology])
  /\ chatLoading' = FALSE
  /\ input' = <<>>
  /\ queries' = [queries EXCEPT ![i].state = IF outcome.ok THEN "answered" ELSE "failed",
                                ![i].answer = outcome.answer,
                                ![i].replyAt = Len(messages) + 1]
  /\ UNCHANGED pageVars

QueryAnswered ==
  \E i \in 1..Len(queries), a \in ChatAnswers : QuerySettled(i, [ok |-> TRUE, answer |-> a])

QueryFailed ==
  \E i \in 1..Len(queries) : QuerySettled(i, [ok |-> FALSE, answer |-> <<>>])

ChatNext ==
  \/ setInput
  \/ handleSend
  \/ QueryAnswered
  \/ QueryFailed

ChatSpec == Init /\ [][ChatNext]_vars

(***************************************************************************)
(* What the parser is expected to compute, stated on the text itself       *)
(***************************************************************************)
\* the lines of t: the runs between two neighbouring line breaks (the start
\* and the end of t included), as <<first, last>>
LineSpans(t) ==
  LET breaks == {0, Len(t) + 1} \cup {i \in 1..Len(t) : t[i] = "\n"}
  IN {<<p + 1, q - 1>> : <<p, q>> \in
        {pq \in breaks \X breaks :
           /\ pq[1] < pq[2]
           /\ \A r \in breaks : ~(pq[1] < r /\ r < pq[2])}}

NonBlankSpans(t) ==
  {sp \in LineSpans(t) : \E k \in sp[1]..sp[2] : ~IsSpace(t[k])}

\* the non-blank lines of t, in file order
LinesOf(t) ==
  LET spans == NonBlankSpans(t)
      kth(k) == CHOOSE q \in spans : Cardinality({r \in spans : r[1] < q[1]}) = k - 1
  IN [k \in 1..Cardinality(spans) |-> SubSeq(t, kth(k)[1], kth(k)[2])]

LineCount(t) == Cardinality(NonBlankSpans(t))

KeySet(headers) == {headers[i] : i \in 1..Len(headers)}

\* the positional zip: a key takes the field at the last position it heads
ZipRow(headers, values) ==
  [h \in KeySet(headers) |->
     LET last == CHOOSE i \in 1..Len(headers) :
                   /\ headers[i] = h
                   /\ \A j \in 1..Len(headers) : headers[j] = h => j <= i
     IN IF last <= Len(values) THEN values[last] ELSE <<>>]

\* a field trimmed, and stripped of its quotes only when it has one on
\* each side
CleanField(raw) ==
  LET t == Trim(raw)
  IN IF Len(t) >= 2 /\ t[1] = "\"" /\ t[Len(t)] = "\""
     THEN SubSeq(t, 2, Len(t) - 1) ELSE t

CleanFields(line) ==
  LET pieces == Split(line, ",")
  IN [i \in 1..Len(pieces) |-> CleanField(pieces[i])]

ParseDone == parsed # NotParsed

RowsFollowLines(minLines) ==
  ParseDone =>
    LET lines == LinesOf(text)
    IN Len(lines) >= minLines =>
         /\ parsed.ok
         /\ Len(parsed.rows) = Len(lines) - 1
         /\ LET headers == SplitFields(lines[1])
            IN \A k \in 1..Len(parsed.rows) :
                 /\ DOMAIN parsed.rows[k] = KeySet(headers)
                 /\ parsed.rows[k] = ZipRow(headers, SplitFields(lines[k + 1]))

\* C3 as stated: a text with a header line and N non-blank data lines, for
\* every N (zero included), parses to exactly N rows, each with every header
\* key, in the order of the data lines.
C3_RowsForEveryN == RowsFollowLines(1)

\* C3 amended: a text with a header line and N >= 1 non-blank data lines
\* parses to exactly N rows, each with every header key, row k built from
\* the k-th data line of the file.
C3_RowsPerDataLine == RowsFollowLines(2)

C3_Witness ==
  /\ parsed.ok
  /\ Len(parsed.rows) >= 2
  /\ parsed.rows[1] # parsed.rows[2]

\* C5: every row is the positional zip of its line's fields against the
\* headers: a header position beyond the line's last field maps to the
\* empty string, and no key outside the header set exists, so fields
\* beyond the last header are dropped.
C5_PositionalZip ==
  (ParseDone /\ parsed.ok) =>
    LET lines == LinesOf(text)
        headers == SplitFields(lines[1])
    IN \A k \in 1..Len(parsed.rows) :
         LET values == SplitFields(lines[k + 1])
             row == parsed.rows[k]
         IN /\ DOMAIN row = KeySet(headers)
            /\ \A i \in 1..Len(headers) :
                 /\ i > Len(values) => row[headers[i]] = <<>>
                 /\ (i <= Len(values)
                      /\ \A j \in (i + 1)..Len(headers) : headers[j] # headers[i])
                    => row[headers[i]] = values[i]

C5_Witness ==
  /\ parsed.ok
  /\ LET lines == LinesOf(text)
         nh == Len(SplitFields(lines[1]))
     IN /\ \E k \in 1..Len(parsed.rows) : Len(SplitFields(lines[k + 1])) < nh
        /\ \E k \in 1..Len(parsed.rows) : Len(SplitFields(lines[k + 1])) > nh

\* C6: every header and value is its raw comma-separated field trimmed,
\* with the quotes removed only when the field has one on each side; a
\* field quoted on one side only keeps its quote.
C6_QuotesStrippedInPairs ==
  (ParseDone /\ parsed.ok) =>
    LET lines == LinesOf(text)
    IN \A k \in 1..Len(parsed.rows) :
         parsed.rows[k] = ZipRow(CleanFields(lines[1]), CleanFields(lines[k + 1]))

(***************************************************************************)
(* Properties of the add-entry workflow                                    *)
(***************************************************************************)
RowByRow == ~Truthy(listId)

RowsDone == lastResult = "uploaded" /\ RowByRow

Count(seq, v) == Cardinality({i \in 1..Len(seq) : seq[i] = v})

RequestsOfRow(j) == {i \in 1..Len(requests) : requests[i].row = j}

Submittable(j) == \E k \in DOMAIN upRows[j] : Trim(upRows[j][k]) # <<>>

\* C1: at the end of a row-by-row import of N parsed rows the success count
\* is the number of rows the backend accepted and the two counts add up to
\* N; every row with a non-empty field was submitted once, whatever
\* happened to the rows before it; and when one row was rejected (non-2xx
\* or throw) and every other row accepted, the tally is 1 failure and N-1
\* successes.
C1_TallyCountsEveryRow ==
  RowsDone =>
    LET N == Len(upRows)
    IN /\ successCount = Count(settled, "ok")
       /\ successCount + errorCount = N
       /\ \A j \in 1..N :
            Cardinality(RequestsOfRow(j)) = (IF Submittable(j) THEN 1 ELSE 0)
       /\ \A k \in 1..N :
            (/\ \E i \in RequestsOfRow(k) : settled[i] \in {"rejected", "thrown"}
             /\ \A j \in (1..N) \ {k} : \E i \in RequestsOfRow(j) : settled[i] = "ok")
            => /\ errorCount = 1
               /\ successCount = N - 1
               /\ \A j \in (k + 1)..N : RequestsOfRow(j) # {}

C1_Witness ==
  /\ RowsDone
  /\ Len(upRows) = 2
  /\ settled = <<"thrown", "ok">>
  /\ successCount = 1
  /\ errorCount = 1

\* C2: the create_row requests of an upload are issued one at a time: at
\* most one is in flight, every request before the last one issued has
\* settled, and the requests follow the order of the rows in the file.
C2_OneRowAtATime ==
  /\ Cardinality(InFlight) <= 1
  /\ \A i \in 1..Len(requests) : i < Len(requests) => settled[i] # "pending"
  /\ \A i, j \in 1..Len(requests) : i < j => requests[i].row < requests[j].row

C2_Witness ==
  /\ upPc = "awaitRow"
  /\ Len(requests) = 2
  /\ requests[1].row = 1
  /\ requests[2].row = 2
  /\ settled = <<"rejected", "pending">>

MalformedFileMessage == <<"CSV file must have at least a header row and one data row">>

\* C4: when the text read from the file has fewer than 2 non-blank lines
\* (no list id in use), the upload ends with the MalformedFile error shown,
\* no request issued, no refresh signalled, and the CSV form still open.
C4_MalformedFileBlocksUpload ==
  [][(FileLoaded /\ LineCount(upFile.text) < 2) =>
       /\ toast' = [type |-> "error", message |-> MalformedFileMessage]
       /\ requests' = <<>>
       /\ refreshCount' = 0
       /\ isAdding' /\ addMode' = "csv"
       /\ ~isUploading' /\ upPc' = "idle"
       /\ lastResult' = "uploadFailed"]_vars

C4_Witness ==
  /\ lastResult = "uploadFailed"
  /\ RowByRow
  /\ upFile.present /\ LineCount(upFile.text) = 1
  /\ toast.message = MalformedFileMessage
  /\ isAdding /\ addMode = "csv"
  /\ requests = <<>>

AllBlank(r) == \A c \in DOMAIN r : Trim(r[c]) = <<>>

\* C7: a save of a record whose fields are all empty after trimming issues
\* no request, warns the user, and leaves the manual form open with its
\* record.
C7_EmptyRecordRejected ==
  [][(handleSave /\ AllBlank(formData)) =>
       /\ requests' = <<>> /\ settled' = <<>>
       /\ savePc' = "idle" /\ ~isSaving'
       /\ toast'.type = "warning"
       /\ isAdding' /\ addMode' = "manual"
       /\ formData' = formData
       /\ refreshCount' = 0
       /\ lastResult' = "EmptyRecord"]_vars

C7_Witness ==
  /\ lastResult = "EmptyRecord"
  /\ isAdding /\ addMode = "manual"
  /\ \E c \in DOMAIN formData : formData[c] = <<" ">>
  /\ toast.type = "warning"
  /\ requests = <<>>

\* C8: a save of a record with a non-empty field issues exactly one
\* create_row; when it succeeds (a 2xx whose record is read) the form
\* closes and the refresh is signalled once; when the backend rejects it
\* or the request throws (fetch, or the reading of the answer) the form
\* stays open with the record as entered, the error is shown and no
\* refresh is signalled.
C8_SaveOutcome ==
  [][/\ (handleSave /\ ~AllBlank(formData)) =>
          /\ Len(requests') = 1
          /\ requests'[1].kind = "create_row"
          /\ requests'[1].body = StripEmpty(formData)
          /\ refreshCount' = 0
     /\ SaveResponse =>
          /\ requests' = requests /\ Len(requests) = 1
          /\ savePc' = "idle" /\ InFlight' = {}
          /\ IF settled'[1] = "ok"
             THEN /\ ~isAdding'
                  /\ refreshCount' = 1
                  /\ lastResult' = "saved"
             ELSE /\ isAdding' /\ addMode' = "manual"
                  /\ formData' = formData
                  /\ toast'.type = "error"
                  /\ refreshCount' = 0
                  /\ lastResult' = "saveFailed"]_vars

C8_Witness ==
  /\ lastResult = "saved"
  /\ requests # <<>> /\ requests[1].kind = "create_row"
  /\ settled = <<"ok">>
  /\ ~isAdding
  /\ refreshCount = 1

\* C9: when the row loop of an upload has processed every row, however
\* many of them failed, the form closes and the refresh is signalled
\* exactly once.
C9_CompletionRefreshesOnce ==
  [][(upPc \in {"reading", "awaitRow"} /\ upPc' = "idle" /\ upRows' # <<>>) =>
       /\ upIdx' = Len(upRows') + 1
       /\ lastResult' = "uploaded"
       /\ ~isAdding' /\ addMode' = "null"
       /\ refreshCount' = 1]_vars

C9_Witness ==
  /\ RowsDone
  /\ Len(upRows) >= 2
  /\ errorCount = Len(upRows)
  /\ requests # <<>>
  /\ ~isAdding
  /\ refreshCount = 1

\* C10: whenever a list id is supplied, whatever its value, an upload
\* sends exactly one bulk_upload request, never reads the file on the
\* client and never sends a create_row.
C10_ListIdAlwaysBulk ==
  listId.present =>
    /\ upPc \notin {"reading", "awaitRow"}
    /\ isUploading => (Len(requests) = 1 /\ requests[1].kind = "bulk_upload")
    /\ \A i \in 1..Len(requests) : requests[i].kind # "create_row"

\* C11: when a list-scoped bulk upload is rejected by the server or
\* throws, the error is shown, the CSV form stays open with the file still
\* selected, no refresh is signalled, and nothing is sent again: the
\* handler is over with its one request.
C11_BulkFailureKeepsForm ==
  [][(BulkResponse /\ settled'[1] \in {"rejected", "thrown"}) =>
       /\ toast'.type = "error"
       /\ isAdding' /\ addMode' = "csv"
       /\ selectedFile.present /\ selectedFile' = selectedFile
       /\ refreshCount' = 0
       /\ requests' = requests /\ Len(requests) = 1
       /\ upPc' = "idle" /\ ~isUploading' /\ InFlight' = {}
       /\ lastResult' = "uploadFailed"]_vars

C11_Witness ==
  /\ lastResult = "uploadFailed"
  /\ Truthy(listId)
  /\ Len(requests) = 1 /\ requests[1].kind = "bulk_upload"
  /\ settled = <<"rejected">>
  /\ toast.type = "error"
  /\ isAdding /\ addMode = "csv"
  /\ selectedFile = upFile
  /\ refreshCount = 0

\* the step in which the row loop of an upload runs out of rows
RowLoopEnds ==
  /\ upPc \in {"reading", "awaitRow"}
  /\ upPc' = "idle"
  /\ lastResult' = "uploaded"

DetailOrStatus(resp) ==
  IF resp.body.json /\ resp.body.detail # "absent"
  THEN <<resp.body.detail>>
  ELSE <<"Server error:", resp.status>>

\* C17 as stated: a non-2xx answer to a save or to a bulk upload shows the
\* body's detail when it has one, and the status message otherwise, a body
\* that is not JSON included.
C17_DetailElseStatus ==
  [][\A resp \in Responses :
       (resp.kind = "error" /\ (SaveAnswered(resp) \/ BulkAnswered(resp))) =>
         toast' = [type |-> "error", message |-> DetailOrStatus(resp)]]_vars

\* C17: a non-2xx answer to a save or to a bulk upload shows the body's
\* detail when the body is JSON and has one, the status message when the
\* body is JSON without a detail, and "Unknown error" when the body is not
\* JSON.
C17_ErrorTextOfAnswer ==
  [][\A resp \in Responses :
       (resp.kind = "error" /\ (SaveAnswered(resp) \/ BulkAnswered(resp))) =>
         toast' = [type |-> "error",
                   message |-> IF resp.body.json THEN DetailOrStatus(resp)
                               ELSE <<"Unknown error">>]]_vars

C17_Witness ==
  /\ lastResult \in {"saveFailed", "uploadFailed"}
  /\ settled = <<"rejected">>
  /\ toast = [type |-> "error", message |-> <<"Unknown error">>]

\* the fields of a row whose value is not the empty string
NonEmptyFields(r) ==
  LET keep == {k \in DOMAIN r : Len(r[k]) > 0}
  IN [k \in keep |-> r[k]]

\* the fields of a row whose value has a character that is not white space
NonBlankFields(r) ==
  LET keep == {k \in DOMAIN r : \E i \in 1..Len(r[k]) : ~IsSpace(r[k][i])}
  IN [k \in keep |-> r[k]]

\* the rows the loop of a row-by-row upload has dealt with so far
RowsPassed ==
  IF upPc = "awaitRow" /\ RowByRow THEN 1..upIdx
  ELSE IF RowsDone THEN 1..Len(upRows)
  ELSE {}

\* C13 as stated: a parsed row without a non-empty value is passed over
\* with no request, and every other row is sent once, with exactly its
\* fields whose value is non-empty.
C13_BodyIsNonEmptyFields ==
  \A j \in RowsPassed :
    IF DOMAIN NonEmptyFields(upRows[j]) = {}
    THEN RequestsOfRow(j) = {}
    ELSE /\ Cardinality(RequestsOfRow(j)) = 1
         /\ \A i \in RequestsOfRow(j) :
              /\ requests[i].kind = "create_row"
              /\ requests[i].body = NonEmptyFields(upRows[j])

\* C13: a parsed row whose values are all empty or white space is passed
\* over with no request, and every other row is sent once, with exactly
\* its fields whose value is not empty or white space.
C13_BodyIsNonBlankFields ==
  \A j \in RowsPassed :
    IF DOMAIN NonBlankFields(upRows[j]) = {}
    THEN RequestsOfRow(j) = {}
    ELSE /\ Cardinality(RequestsOfRow(j)) = 1
         /\ \A i \in RequestsOfRow(j) :
              /\ requests[i].kind = "create_row"
              /\ requests[i].body = NonBlankFields(upRows[j])

C13_Witness ==
  /\ RowsDone
  /\ folder = "quoted"
  /\ ChatInit
  /\ Len(upRows) = 2
  /\ upRows[1] = ("a" :> <<"a">>) @@ ("b" :> <<" ">>)
  /\ upRows[2] = ("a" :> <<" ">>) @@ ("b" :> <<>>)
  /\ Len(requests) = 1
  /\ requests[1].row = 1
  /\ requests[1].body = ("a" :> <<"a">>)

(***************************************************************************)
(* Properties of the sample templates and of the HTTP requests             *)
(***************************************************************************)
\* C18: a call of downloadSampleCSV for a list type the catalog lacks ends
\* in an error its caller can observe (a throw), and downloads nothing.
C18_UnknownListTypeFails ==
  (lastCall.outcome # "none" /\ lastCall.listType \notin DOMAIN CSV_TEMPLATES) =>
    /\ lastCall.outcome = "threw"
    /\ ~lastCall.downloaded

\* the list type whose template is saved under a file name
TemplateOfFile(filename) ==
  CHOOSE listType \in DOMAIN CSV_TEMPLATES : CSV_TEMPLATES[listType].filename = filename

AsTexts(fields) == [c \in 1..Len(fields) |-> <<fields[c]>>]

CallListsHeader ==
  <<"hcp_id", ",", "hcp_name", ",", "call_date", ",", "sales_rep", ",", "status">>

\* C19: every sample file downloaded is determined by its list type: cut
\* at the newlines it gives the header row and then each sample row, and
\* each of these cut at the commas gives the fields of that row; two
\* downloads for the same list type have the same text; and the first line
\* for Call Lists is hcp_id,hcp_name,call_date,sales_rep,status.
C19_SampleIsJoinedGrid ==
  /\ \A i \in 1..Len(downloads) :
       LET template == CSV_TEMPLATES[TemplateOfFile(downloads[i].filename)]
           lines == Split(downloads[i].content, "\n")
       IN /\ Len(lines) = 1 + Len(template.sampleData)
          /\ Split(lines[1], ",") = AsTexts(template.headers)
          /\ \A r \in 1..Len(template.sampleData) :
               Split(lines[r + 1], ",") = AsTexts(template.sampleData[r])
          /\ downloads[i].filename = "call_lists_sample.csv" =>
               lines[1] = CallListsHeader
  /\ \A i, j \in 1..Len(downloads) :
       downloads[i].filename = downloads[j].filename =>
         downloads[i].content = downloads[j].content

C19_Witness ==
  /\ Len(downloads) = 2
  /\ downloads[1].filename = "call_lists_sample.csv"
  /\ downloads[2].filename = "call_lists_sample.csv"
  /\ lastCall.listType = "Call Lists"
  /\ lastCall.downloaded

\* C20: every request that left the client while a token was stored
\* carries that token in its Authorization header.
C20_TokenOnEveryRequest ==
  \A i \in 1..Len(sent) :
    sent[i].stored \notin {"null", ""} =>
      /\ "Authorization" \in DOMAIN sent[i].headers
      /\ sent[i].headers["Authorization"] = <<"Bearer ", sent[i].stored>>


\* C15: while an add-entry interaction is active in DomainView (isAdding of
\* the add button, from the choice of manual or CSV mode to cancel or
\* completion) and the effects of the render have run, DomainView's
\* interval is not registered, so that no poll calls fetchEntries.
C15_PollingPausedWhileAdding ==
  (host = "DomainView" /\ Settled /\ isAdding) => ~pollInterval


\* the requests of the step are one delete_row per selected id, all of
\* them in flight when the step ends
IssuedOncePerId ==
  /\ Len(deletes') = Cardinality(selectedEntries)
  /\ Len(deleted') = Len(deletes')
  /\ \A id \in selectedEntries : \E i \in 1..Len(deletes') : deletes'[i].id = id
  /\ \A i \in 1..Len(deletes') :
       /\ deletes'[i].kind = "delete_row"
       /\ deletes'[i].table = getEntryTableName(selectedSubdomain.subdomain_name)
       /\ deleted'[i] = "pending"

\* a step in which the deletion behind request i is answered with a failure
FailsNow(i) == deleted[i] = "pending" /\ deleted'[i] = "failed"

\* a failure leaves the other requests as they are, in flight or answered;
\* the first failure of a deletion sets the one fixed error toast, a later
\* one sets nothing
FailureHandling ==
  \A i \in 1..Len(deleted) :
    FailsNow(i) =>
      /\ deletes' = deletes
      /\ \A j \in 1..Len(deleted) : j # i => deleted'[j] = deleted[j]
      /\ IF \E j \in 1..Len(deleted) : deleted[j] = "failed"
         THEN viewToast' = viewToast
         ELSE viewToast' = [type |-> "error",
                            message |-> <<"Failed to delete some entries. Please try again.">>]

NewCreateRow ==
  \E i \in 1..Len(requests') :
    /\ requests'[i].kind = "create_row"
    /\ settled'[i] = "pending"
    /\ (i > Len(settled) \/ settled[i] # "pending")

\* C14: while the name of the selected subdomain has no entry in the
\* lookup of getEntryTableName, neither a manual save nor a CSV upload
\* started from DomainView issues a create_row request.
C14_UnknownTableRefused ==
  [][(host = "DomainView" /\ getEntryTableName(subdomainName) = "null")
       => ~NewCreateRow]_vars


\* no file of another extension is held, being uploaded or sent
OnlyCsvHeld ==
  /\ selectedFile.present => EndsWith(selectedFile.name, DotCsv)
  /\ (upPc # "idle" /\ upFile.present) => EndsWith(upFile.name, DotCsv)
  /\ \A i \in 1..Len(requests) :
       requests[i].kind = "bulk_upload" => EndsWith(requests[i].body.name, DotCsv)

\* C21: the selected file of the CSV workflow is absent or has a name
\* ending in .csv; a selection with another extension sets the error toast
\* and leaves the previous selection; no upload reads or sends a file
\* whose name does not end in .csv.
C21_CsvExtensionEnforced ==
  /\ []OnlyCsvHeld
  /\ [][\A file \in Files :
          (SelectFile(file) /\ ~EndsWith(file.name, DotCsv)) =>
            /\ toast' = [type |-> "error", message |-> <<"Please select a CSV file">>]
            /\ selectedFile' = selectedFile]_vars

\* a .csv file is selected and a later selection was rejected
C21_Witness ==
  /\ selectedFile.present
  /\ isAdding /\ addMode = "csv" /\ ~isUploading
  /\ toast = [type |-> "error", message |-> <<"Please select a CSV file">>]


\* the list types named in DOMAIN_CONFIGS
ListTypesNamed ==
  UNION {{c.listTypes[i] : i \in 1..Len(c.listTypes)} :
           c \in {DOMAIN_CONFIGS[k] : k \in 1..Len(DOMAIN_CONFIGS)}}

\* C22: every list type named in DOMAIN_CONFIGS has a CSV template of its
\* own, a list type from getListTypeFromSubdomain that has a template, and
\* a table name from getEntryTableName, so that the subdomain shown, when
\* it is one of them, has its sample and its table; in every template each
\* sample row has as many fields as there are headers.
C22_CatalogConsistent ==
  /\ subdomainName \in ListTypesNamed =>
       /\ getListTypeFromSubdomain(subdomainName) \in DOMAIN CSV_TEMPLATES
       /\ TableName # ""
  /\ \A lt \in ListTypesNamed :
       /\ lt \in DOMAIN CSV_TEMPLATES
       /\ getListTypeFromSubdomain(lt) \in DOMAIN CSV_TEMPLATES
       /\ getEntryTableName(lt) # "null"
       /\ \A other \in ListTypesNamed \ {lt} :
            CSV_TEMPLATES[other].filename # CSV_TEMPLATES[lt].filename
  /\ \A lt \in DOMAIN CSV_TEMPLATES :
       \A r \in 1..Len(CSV_TEMPLATES[lt].sampleData) :
         Len(CSV_TEMPLATES[lt].sampleData[r]) = Len(CSV_TEMPLATES[lt].headers)

\* the sample of a list type of DOMAIN_CONFIGS was downloaded from the
\* CSV form of its subdomain
C22_Witness ==
  /\ lastCall.listType \in ListTypesNamed
  /\ lastCall.downloaded
  /\ subdomainName \in ListTypesNamed
  /\ toast = [type |-> "success", message |-> <<"Sample CSV downloaded successfully!">>]


\* C23: whenever the add workflow is idle (isAdding false), no file is
\* selected and the record in progress is empty.
C23_NothingKeptWhenIdle ==
  ~isAdding => (selectedFile = NoFile /\ formData = EmptyForm)

\* an upload of a selected file has completed and the workflow is idle
C23_Witness ==
  /\ ~isAdding
  /\ lastResult = "uploaded"
  /\ upFile.present


\* the rows shown are rows of the table of the selected subdomain
ShownOfSelected ==
  \A i \in 1..Len(entries) : entries[i].c2 = getEntryTableName(subdomainName)

\* C24: in DomainView, once no fetch of the entries is in flight, the
\* entries shown are those of the selected subdomain.
C24_EntriesOfSelectedSubdomain ==
  (host = "DomainView" /\ ~loading /\ fetches = <<>>) => ShownOfSelected


\* the ids of the entries shown
ShownIds == {getEntryId(entries[i], RenderedTable) : i \in 1..Len(entries)}

\* C25: in DomainView every id in selectedEntries is the id of an entry
\* shown, and so is every id for which a delete request is sent.
C25_SelectionIsShown ==
  /\ host = "DomainView" => selectedEntries \subseteq ShownIds
  /\ delPc = "awaitAll" => \A i \in 1..Len(deletes) : deletes[i].id \in ShownIds


\* the step in which the last of the deletions of a confirmDelete succeeds
AllDeleted == delPc = "awaitAll" /\ delPc' = "awaitFetch"

\* C26: in DomainView the selection is empty whenever edit mode is off;
\* cancel of edit mode, manual refresh, subdomain change, domain change and
\* a fully successful delete each leave edit mode off and the selection
\* empty; the selection grows only while edit mode is on.
C26_NoSelectionOutsideEditMode ==
  /\ [](host = "DomainView" /\ ~isEditMode => selectedEntries = {})
  /\ [][(CancelEditMode \/ handleRefresh \/ handleSubdomainChange \/ DomainChange
           \/ AllDeleted)
          => (~isEditMode' /\ selectedEntries' = {})]_vars
  /\ [][~(selectedEntries' \subseteq selectedEntries) => (isEditMode /\ isEditMode')]_vars

\* two ticked entries were deleted; edit mode is off again and nothing is
\* selected while the entries are fetched
C26_Witness ==
  /\ delPc = "awaitFetch"
  /\ Len(deletes) = 2
  /\ ~isEditMode
  /\ selectedEntries = {}


\* the step in which a deletion fails while confirmDelete awaits them all
OneFailed ==
  delPc = "awaitAll" /\ \E i \in 1..Len(deleted) : FailsNow(i)

\* C27: when every deletion of a confirmDelete has succeeded, the selection
\* is cleared, edit mode and the modal are closed and the entries of the
\* selected subdomain are fetched again; when a deletion fails, selection
\* and edit mode stay as they are, the modal is closed, no fetch is issued
\* and the entries shown stay; isDeleting is false once confirmDelete is
\* over, and true until then.
C27_ConfirmDeletePostState ==
  /\ [][AllDeleted =>
          /\ selectedEntries' = {}
          /\ ~isEditMode'
          /\ ~showDeleteConfirm'
          /\ viewToast'.type = "success"
          /\ fetches' = Append(fetches, [table |-> getEntryTableName(subdomainName),
                                         waiter |-> "confirmDelete"])]_vars
  /\ [][OneFailed =>
          /\ selectedEntries' = selectedEntries
          /\ isEditMode' = isEditMode
          /\ ~showDeleteConfirm'
          /\ fetches' = fetches
          /\ entries' = entries
          /\ delPc' = "idle"]_vars
  /\ [](isDeleting <=> delPc # "idle")

\* a deletion of two ticked entries has failed for one of them: the other
\* is deleted on the server, and both are still shown and ticked in edit
\* mode, with no fetch in flight
C27_Witness ==
  /\ delPc = "idle" /\ ~isDeleting /\ ~showDeleteConfirm
  /\ Len(deletes) = 2
  /\ "failed" \in Range(deleted) /\ "ok" \in Range(deleted)
  /\ isEditMode
  /\ selectedEntries = {deletes[1].id, deletes[2].id}
  /\ selectedEntries \subseteq ShownIds
  /\ fetches = <<>>


\* the outcomes with which a save or an upload settles
SettledResults == {"saved", "saveFailed", "EmptyRecord", "uploaded", "uploadFailed"}

\* C28: for one add-entry form at most one manual save or CSV upload is in
\* flight: while isSaving or isUploading no save, upload or cancel starts,
\* and the flag is false again once the operation has settled, whatever
\* its outcome.
C28_OneOperationInFlight ==
  /\ [](/\ ~(savePc # "idle" /\ upPc # "idle")
        /\ Cardinality(InFlight) <= 1
        /\ isSaving <=> savePc # "idle"
        /\ isUploading <=> upPc # "idle"
        /\ lastResult \in SettledResults => (~isSaving /\ ~isUploading))
  /\ [][(isSaving \/ isUploading)
          => ~(handleSave \/ handleCsvUpload \/ handleCancel)]_vars

\* a manual save is in flight
C28_Witness ==
  /\ isSaving /\ addMode = "manual"
  /\ Cardinality(InFlight) = 1
  /\ lastResult = "running"


\* C29: in DomainView a manual save submits fields of the columns only,
\* the keys of the first entry shown without the bookkeeping ones; while
\* no entry is shown every manual save is rejected as EmptyRecord and no
\* create_row request is issued.
C29_SaveSubmitsColumnsOnly ==
  [][(host = "DomainView" /\ handleSave) =>
       /\ \A i \in 1..Len(requests') : DOMAIN requests'[i].body \subseteq Columns
       /\ entries = <<>> => (lastResult' = "EmptyRecord" /\ requests' = <<>>)]_vars


\* the queries still in flight
Unsettled == {i \in 1..Len(queries) : queries[i].state = "pending"}

\* the assistant message a settled query leaves
ReplyOf(q) ==
  [role |-> "assistant", content |-> IF q.state = "answered" THEN q.answer ELSE Apology]

\* the places in messages taken by the queries
PlacesTaken ==
  {queries[i].userAt : i \in 1..Len(queries)}
    \cup {queries[i].replyAt : i \in 1..Len(queries) \ Unsettled}

\* C30: under every interleaving of sends and answers, every sendMessage
\* has its user message in the conversation, every settled one has its
\* assistant message (the answer, or the apology after a failure) behind
\* that user message, the conversation holds nothing else and nothing
\* twice, and loading is false when no query is in flight.
C30_OneReplyPerMessage ==
  /\ \A i \in 1..Len(queries) :
       /\ queries[i].userAt \in 1..Len(messages)
       /\ messages[queries[i].userAt] = [role |-> "user", content |-> queries[i].question]
       /\ i \notin Unsettled =>
            /\ queries[i].replyAt \in 1..Len(messages)
            /\ queries[i].replyAt > queries[i].userAt
            /\ messages[queries[i].replyAt] = ReplyOf(queries[i])
  /\ PlacesTaken = 1..Len(messages)
  /\ Len(messages) = Len(queries) + Cardinality((1..Len(queries)) \ Unsettled)
  /\ Unsettled = {} => ~chatLoading

\* two questions were in flight together, the second was answered first,
\* and the first failed
C30_Witness ==
  /\ Len(queries) >= 2
  /\ Unsettled = {}
  /\ queries[1].state = "failed"
  /\ queries[2].state = "answered"
  /\ queries[2].replyAt < queries[1].replyAt
  /\ queries[2].userAt < queries[2].replyAt
  /\ queries[2].userAt = queries[1].userAt + 1

====
